---- MODULE Spec2Model ----
(***************************************************************************)
(* Model of the layout-to-feature-to-semantic pipeline of                  *)
(* sciencebeam-parser (pygrobid): retokenisation of layout tokens, the     *)
(* layout document transformations, TEI element-path creation, bounding    *)
(* box merging and the per-token text features.                           *)
(*                                                                         *)
(* Texts are sequences of one-character strings.  Python floats are        *)
(* modelled as exact fractions <<numerator, denominator>>.                 *)
(***************************************************************************)
EXTENDS Integers, Sequences, FiniteSets, TLC

\* ------------------------------------------------------------------ bounds
MaxTextLen == 3

\* pages + blocks + lines + tokens of the documents built
MaxDocNodes == 8

\* titles, abstracts, authors, sections and notes added to a TeiDocument
MaxTeiAppends == 2

\* bounding boxes have x in 0..MaxBoxPos and width in 0..MaxBoxSize
MaxBoxPos == 1

MaxBoxSize == 2

\* the longest token text given to the feature functions
MaxFeatLen == 6

\* feature_linear_scaling_int is given pos and total in -1..MaxScaleArg
MaxScaleArg == 5

\* and a bin_count in 0..MaxBinCount, or NBBINS_POSITION
MaxBinCount == 3

\* the most tokens of a line given to the per-token feature generator
MaxGenTokens == 3

\* the indentation tracker is given tokens with x in 0..MaxIndentX
MaxIndentX == 2

\* and is called (on_new_line or get_is_indented_and_update) this often
MaxIndentCalls == 5

\* the most tokens of a line given to the segmentation generator
MaxSegTokens == 2

\* the most (tag, block) pairs given to an extractor
MaxEntityBlocks == 3

\* the most tokens of a block given to iter_layout_block_tei_children
MaxTeiTokens == 3

\* the most String nodes of a TextLine given to the ALTO parser
MaxAltoStrings == 2

\* RelativeFontSizeFeature is given tokens with a font size in
\* 0..MaxFontSize, or None
MaxFontSize == 3

\* and this many tokens at most
MaxFontSizeTokens == 3

\* the most tokens of the document of the first of two generator calls
MaxCallTokens == 3

\* request threads of the service and calls of predict_single per thread
MaxOcrThreads == 2
MaxOcrCalls == 2

\* request threads sharing one layout model and calls per thread
MaxCvThreads == 2
MaxCvCalls == 2

\* ----------------------------------------------------------------- helpers
\* Optional[T]: None is the empty sequence, a value v is <<v>>
None == <<>>

Some(v) == <<v>>

\* str.strip() removes leading and trailing whitespace; the text is
\* whitespace-only (or empty) exactly when strip() is falsy.
IsSpaceChar(ch) == ch = " "

StripIsEmpty(text) == \A i \in 1..Len(text) : IsSpaceChar(text[i])

RECURSIVE Concat(_)
Concat(chunks) ==
    IF chunks = <<>> THEN <<>> ELSE Head(chunks) \o Concat(Tail(chunks))

RECURSIVE SumLen(_)
SumLen(chunks) ==
    IF chunks = <<>> THEN 0 ELSE Len(Head(chunks)) + SumLen(Tail(chunks))

\* exact fractions standing for the float values of the coordinates
Frac(n, d) == <<n, d>>

FracEq(p, q) == p[1] * q[2] = q[1] * p[2]

FracAdd(p, q) == <<p[1] * q[2] + q[1] * p[2], p[2] * q[2]>>

\* ------------------------------------------------------------ LayoutToken
EMPTY_FONT == "_EMPTY"

Fonts == {EMPTY_FONT, "F1"}

LayoutCoordinates(x, y, width, height) ==
    [x |-> x, y |-> y, width |-> width, height |-> height]

LayoutToken(text, font, whitespace, coordinates) ==
    [text |-> text, font |-> font, whitespace |-> whitespace,
     coordinates |-> coordinates]

\* ---------------------------------------------------- retokenisation
\* coordinates.x + coordinates.width * text_character_offset / total_text_length
\* and coordinates.width * len(text) / total_text_length, y and height kept.
get_relative_coordinates(coordinates, text, text_character_offset, total_text_length) ==
    IF coordinates = None THEN None
    ELSE LET c == coordinates[1]
         IN  Some(LayoutCoordinates(
                 FracAdd(c.x,
                         Frac(c.width[1] * text_character_offset,
                              c.width[2] * total_text_length)),
                 c.y,
                 Frac(c.width[1] * Len(text),
                      c.width[2] * total_text_length),
                 c.height))

\* the state of the loop over token_texts (lines 80-84)
RetokInitState ==
    [texts_with_whitespace |-> <<>>, pending_token_text |-> <<>>,
     pending_whitespace |-> <<>>, text_character_offset |-> 0,
     pending_text_character_offset |-> 0]

\* one iteration of the loop over token_texts (lines 85-99)
RetokStep(s, token_text) ==
    IF StripIsEmpty(token_text)
    THEN [s EXCEPT !.pending_whitespace = @ \o token_text,
                   !.text_character_offset = @ + Len(token_text)]
    ELSE [texts_with_whitespace |->
              IF s.pending_token_text # <<>>
              THEN Append(s.texts_with_whitespace,
                          <<s.pending_token_text, s.pending_whitespace,
                            s.pending_text_character_offset>>)
              ELSE s.texts_with_whitespace,
          pending_token_text |-> token_text,
          pending_whitespace |-> <<>>,
          pending_text_character_offset |-> s.text_character_offset,
          text_character_offset |-> s.text_character_offset + Len(token_text)]

RECURSIVE RetokLoop(_, _)
RetokLoop(s, token_texts) ==
    IF token_texts = <<>> THEN s
    ELSE RetokLoop(RetokStep(s, Head(token_texts)), Tail(token_texts))

\* a flush that forgets the token's own trailing whitespace
RetokFlushNoWhitespace(s, whitespace) ==
    [s EXCEPT !.texts_with_whitespace =
                  IF s.pending_token_text # <<>>
                  THEN Append(@, <<s.pending_token_text, s.pending_whitespace,
                                   s.pending_text_character_offset>>)
                  ELSE @]

\* after the loop (lines 100-106): the token's own whitespace is appended and
\* the pending text is flushed
RetokFlush(s, whitespace) ==
    LET ws == s.pending_whitespace \o whitespace
    IN  [s EXCEPT !.pending_whitespace = ws,
                  !.texts_with_whitespace =
                      IF s.pending_token_text # <<>>
                      THEN Append(@, <<s.pending_token_text, ws,
                                       s.pending_text_character_offset>>)
                      ELSE @]

\* the text whose length gives each sub-token's width (line 114): the
\* comprehension passes pending_token_text, which after the loop is the last
\* non-whitespace chunk, not the comprehension's own token_text
RetokWidthText(s, entry) == s.pending_token_text

\* the list comprehension of lines 107-120
RetokBuild(layout_token, s, total_text_length) ==
    [i \in 1..Len(s.texts_with_whitespace) |->
        LET entry == s.texts_with_whitespace[i]
        IN  LayoutToken(
                entry[1],
                layout_token.font,
                entry[2],
                get_relative_coordinates(
                    layout_token.coordinates,
                    RetokWidthText(s, entry),
                    entry[3],
                    total_text_length))]

\* retokenize_layout_token(layout_token, tokenize_fn), token_texts being the
\* value tokenize_fn(layout_token.text) returned
retokenize_layout_token(layout_token, token_texts) ==
    IF StripIsEmpty(layout_token.text) THEN <<>>
    ELSE IF token_texts = <<layout_token.text>> THEN <<layout_token>>
    ELSE RetokBuild(
            layout_token,
            RetokFlush(RetokLoop(RetokInitState, token_texts),
                       layout_token.whitespace),
            SumLen(token_texts))

\* ------------------------------------------------------- LayoutDocument
LayoutLine(tokens) == [tokens |-> tokens]

LayoutBlock(lines) == [lines |-> lines]

LayoutPage(blocks) == [blocks |-> blocks]

LayoutDocument(pages) == [pages |-> pages]

\* the functions handed to flat_map_layout_tokens: retokenize_layout_token
\* with a tokenizer that cuts a text into its characters, the same with a
\* tokenizer that never cuts, and a function returning every token twice
RECURSIVE tokenize_chars(_)
tokenize_chars(text) ==
    IF text = <<>> THEN <<>> ELSE <<<<Head(text)>>>> \o tokenize_chars(Tail(text))

FlatMapFns == {"retokenize_chars", "retokenize_whole", "twice"}

ApplyFn(fn, token) ==
    CASE fn = "retokenize_chars" ->
            retokenize_layout_token(token, tokenize_chars(token.text))
      [] fn = "retokenize_whole" ->
            retokenize_layout_token(token, <<token.text>>)
      [] fn = "twice" -> <<token, token>>

\* a comprehension that puts the results of later tokens first
RECURSIVE FlatMapTokensReversed(_, _)
FlatMapTokensReversed(tokens, fn) ==
    IF tokens = <<>> THEN <<>>
    ELSE FlatMapTokensReversed(Tail(tokens), fn) \o ApplyFn(fn, Head(tokens))

\* [tokenized_token for token in tokens for tokenized_token in fn(token)]
RECURSIVE FlatMapTokens(_, _)
FlatMapTokens(tokens, fn) ==
    IF tokens = <<>> THEN <<>>
    ELSE ApplyFn(fn, Head(tokens)) \o FlatMapTokens(Tail(tokens), fn)

LayoutLine_flat_map_layout_tokens(line, fn) ==
    LayoutLine(FlatMapTokens(line.tokens, fn))

LayoutBlock_flat_map_layout_tokens(block, fn) ==
    LayoutBlock([i \in 1..Len(block.lines) |->
        LayoutLine_flat_map_layout_tokens(block.lines[i], fn)])

LayoutPage_flat_map_layout_tokens(page, fn) ==
    LayoutPage([i \in 1..Len(page.blocks) |->
        LayoutBlock_flat_map_layout_tokens(page.blocks[i], fn)])

LayoutDocument_flat_map_layout_tokens(document, fn) ==
    LayoutDocument([i \in 1..Len(document.pages) |->
        LayoutPage_flat_map_layout_tokens(document.pages[i], fn)])

\* a line filter that keeps every line
LayoutBlock_keep_all_lines(block) == block

LayoutBlock_remove_empty_lines(block) ==
    LayoutBlock(SelectSeq(block.lines, LAMBDA line : line.tokens # <<>>))

LayoutPage_remove_empty_blocks(page) ==
    LET blocks == [i \in 1..Len(page.blocks) |->
                      LayoutBlock_remove_empty_lines(page.blocks[i])]
    IN  LayoutPage(SelectSeq(blocks, LAMBDA block : block.lines # <<>>))

LayoutDocument_remove_empty_blocks(document) ==
    LET pages == [i \in 1..Len(document.pages) |->
                     LayoutPage_remove_empty_blocks(document.pages[i])]
    IN  LayoutDocument(SelectSeq(pages, LAMBDA page : page.blocks # <<>>))

\* ---------------------------------------------------------- TeiDocument
\* An XML element: its tag, its "type" attribute ("" when it has none), its
\* children in document order, and whether get_or_create_element_at made it.
\* An element is named by its position: the child indexes from the root.
TeiElement(tag, type, by_api) ==
    [tag |-> tag, type |-> type, by_api |-> by_api, children |-> <<>>]

\* _parse_tag_expression: 'tag' or 'tag[@type="value"]'
TagExpression(tag, type) == [tag |-> tag, type |-> type]

\* a find that never matches an expression with an attribute predicate
FindChildPlainOnly(parent, expr) ==
    LET hits == {k \in 1..Len(parent.children) :
                    /\ expr.type = ""
                    /\ parent.children[k].tag = expr.tag}
    IN  IF hits = {} THEN 0 ELSE CHOOSE k \in hits : \A j \in hits : k <= j

\* parent.find(TEI_NS_PREFIX + path[0]): the first child with the tag and,
\* for an expression with a predicate, with that attribute value; 0 is None
FindChild(parent, expr) ==
    LET hits == {k \in 1..Len(parent.children) :
                    /\ parent.children[k].tag = expr.tag
                    /\ (expr.type # "" => parent.children[k].type = expr.type)}
    IN  IF hits = {} THEN 0 ELSE CHOOSE k \in hits : \A j \in hits : k <= j

\* get_or_create_element_at(parent, path): the parent as it is afterwards and
\* the position, below parent, of the element returned
RECURSIVE get_or_create_element_at(_, _)
get_or_create_element_at(parent, path) ==
    IF path = <<>> THEN [node |-> parent, at |-> <<>>]
    ELSE LET found == FindChild(parent, path[1])
             parent1 == IF found = 0
                        THEN [parent EXCEPT !.children =
                                 Append(@, TeiElement(path[1].tag, path[1].type, TRUE))]
                        ELSE parent
             k == IF found = 0 THEN Len(parent1.children) ELSE found
             r == get_or_create_element_at(parent1.children[k], Tail(path))
         IN  [node |-> [parent1 EXCEPT !.children[k] = r.node],
              at |-> <<k>> \o r.at]

\* element.append(child) on the element at position at
RECURSIVE AppendChildAt(_, _, _)
AppendChildAt(node, at, child) ==
    IF at = <<>> THEN [node EXCEPT !.children = Append(@, child)]
    ELSE [node EXCEPT !.children[at[1]] = AppendChildAt(@, Tail(at), child)]

\* TeiDocument.set_child_element_at(path, child), and every
\* get_or_create_element_at(path).append(child)
set_child_element_at(root, path, child) ==
    LET r == get_or_create_element_at(root, path)
    IN  AppendChildAt(r.node, r.at, child)

TitleStmtPath ==
    <<TagExpression("teiHeader", ""), TagExpression("fileDesc", ""),
      TagExpression("titleStmt", "")>>

AbstractPath ==
    <<TagExpression("teiHeader", ""), TagExpression("profileDesc", ""),
      TagExpression("abstract", "")>>

AnalyticPath ==
    <<TagExpression("teiHeader", ""), TagExpression("fileDesc", ""),
      TagExpression("sourceDesc", ""), TagExpression("biblStruct", ""),
      TagExpression("analytic", "")>>

BodyPath == <<TagExpression("text", ""), TagExpression("body", "")>>

BackPath == <<TagExpression("text", ""), TagExpression("back", "")>>

BackAnnexPath ==
    <<TagExpression("text", ""), TagExpression("back", ""),
      TagExpression("div", "annex")>>

\* ----------------------------------------------------------- BoundingBox
BoundingBox(x, y, width, height) ==
    [x |-> x, y |-> y, width |-> width, height |-> height]

Min(a, b) == IF a <= b THEN a ELSE b

Max(a, b) == IF a >= b THEN a ELSE b

\* not self.width or not self.height
BoundingBox_is_empty(self) == self.width = 0 \/ self.height = 0

\* an include without the check of an empty receiver
BoundingBox_include_no_self_check(self, other) ==
    IF BoundingBox_is_empty(other) THEN self
    ELSE LET x == Min(self.x, other.x)
             y == Min(self.y, other.y)
         IN  BoundingBox(
                x, y,
                Max(self.x + self.width, other.x + other.width) - x,
                Max(self.y + self.height, other.y + other.height) - y)

BoundingBox_include(self, other) ==
    IF BoundingBox_is_empty(other) THEN self
    ELSE IF BoundingBox_is_empty(self) THEN other
    ELSE LET x == Min(self.x, other.x)
             y == Min(self.y, other.y)
         IN  BoundingBox(
                x, y,
                Max(self.x + self.width, other.x + other.width) - x,
                Max(self.y + self.height, other.y + other.height) - y)

\* reduce(BoundingBox.include, bounding_box_iterable), of a non-empty list
RECURSIVE ReduceInclude(_, _)
ReduceInclude(acc, boxes) ==
    IF boxes = <<>> THEN acc
    ELSE ReduceInclude(BoundingBox_include(acc, Head(boxes)), Tail(boxes))

merge_bounding_boxes(boxes) == ReduceInclude(Head(boxes), Tail(boxes))

\* ------------------------------------------------------ token features
\* str.isdigit, str.islower, str.isupper and str.isalpha of the characters
\* the texts are made of
IsDigitChar(ch) == ch \in {"1"}

IsLowerChar(ch) == ch \in {"a", "c"}

IsUpperChar(ch) == ch \in {"B"}

IsAlphaChar(ch) == IsLowerChar(ch) \/ IsUpperChar(ch)

\* text.isdigit(): no character but digits, and at least one
IsDigitText(text) ==
    text # <<>> /\ \A i \in 1..Len(text) : IsDigitChar(text[i])

get_digit_feature(text) ==
    IF IsDigitText(text) THEN "ALLDIGIT"
    ELSE IF \E i \in 1..Len(text) : IsDigitChar(text[i]) THEN "CONTAINSDIGITS"
    ELSE "NODIGIT"

get_capitalisation_feature(text) ==
    IF text # <<>> /\ \A i \in 1..Len(text) : ~IsLowerChar(text[i]) THEN "ALLCAP"
    ELSE IF text # <<>> /\ IsUpperChar(text[1]) THEN "INITCAP"
    ELSE "NOCAPS"

\* a capitalisation status that does not look at the digit status
get_capitalisation_status_no_digit_check(token_text) ==
    get_capitalisation_feature(token_text)

\* CommonLayoutTokenFeatures.get_capitalisation_status
get_capitalisation_status(token_text) ==
    IF get_digit_feature(token_text) = "ALLDIGIT" THEN "NOCAPS"
    ELSE get_capitalisation_feature(token_text)

get_char_shape_feature(ch) ==
    IF IsDigitChar(ch) THEN "d"
    ELSE IF IsAlphaChar(ch) THEN (IF IsUpperChar(ch) THEN "X" ELSE "x")
    ELSE ch

\* Python slices: seq[lo:] and seq[:-n] and seq[-n:]
DropFirst(seq, n) == SubSeq(seq, Min(n, Len(seq)) + 1, Len(seq))

DropLast(seq, n) == SubSeq(seq, 1, Max(Len(seq) - n, 0))

TakeLast(seq, n) == SubSeq(seq, Max(Len(seq) - n, 0) + 1, Len(seq))

TakeFirst(seq, n) == SubSeq(seq, 1, Min(n, Len(seq)))

\* the loop of lines 235-238: a character is appended unless it equals the
\* last one appended
RECURSIVE WithoutConsecutiveDuplicates(_, _)
WithoutConsecutiveDuplicates(acc, rest) ==
    IF rest = <<>> THEN acc
    ELSE WithoutConsecutiveDuplicates(
            IF Head(rest) # acc[Len(acc)] THEN Append(acc, Head(rest)) ELSE acc,
            Tail(rest))

\* a word shape whose suffix is shape[-2:], not shape[1:][-2:]
get_word_shape_feature_suffix_of_all(text) ==
    LET shape == [i \in 1..Len(text) |-> get_char_shape_feature(text[i])]
        prefix == TakeFirst(shape, 1)
        middle == DropLast(DropFirst(shape, 1), 2)
        suffix == TakeLast(shape, 2)
        start == TakeFirst(middle, 1)
    IN  prefix
        \o (IF start = <<>> THEN <<>>
            ELSE WithoutConsecutiveDuplicates(start, DropFirst(middle, 1)))
        \o suffix

get_word_shape_feature(text) ==
    LET shape == [i \in 1..Len(text) |-> get_char_shape_feature(text[i])]
        prefix == TakeFirst(shape, 1)
        middle == DropLast(DropFirst(shape, 1), 2)
        suffix == TakeLast(DropFirst(shape, 1), 2)
        start == TakeFirst(middle, 1)
    IN  prefix
        \o (IF start = <<>> THEN <<>>
            ELSE WithoutConsecutiveDuplicates(start, DropFirst(middle, 1)))
        \o suffix

\* ------------------------------------------------------------------ state
VARIABLES
    rt_called,      \* whether retokenize_layout_token has been called
    rt_token,       \* its layout_token argument
    rt_token_texts, \* what tokenize_fn(layout_token.text) returned
    rt_result,      \* the list of LayoutToken it returned
    doc,            \* the LayoutDocument being built, then transformed
    doc_nodes,      \* the number of pages, blocks, lines and tokens in doc
    doc_op,         \* the transformation called on doc ("none" before)
    doc_fn,         \* the fn given to flat_map_layout_tokens
    doc_at_call,    \* doc as it was when the transformation was called
    doc_result,     \* the LayoutDocument the transformation returned
    tei,            \* the root element of the TeiDocument
    tei_appends,    \* the number of elements appended below created paths
    tei_called,     \* whether get_or_create_element_at has been called
    tei_path,       \* the path of its last call
    tei_at,         \* the position of the element that call returned
    bb_boxes,       \* the list of BoundingBox given to merge_bounding_boxes
    bb_called,      \* whether merge_bounding_boxes has been called
    bb_result,      \* the BoundingBox it returned
    ft_text,        \* the token text given to the feature functions
    ft_called,      \* whether the features have been computed
    ft_capitalisation, \* get_capitalisation_status of ft_text
    ft_word_shape,  \* get_word_shape_feature of ft_text
    sc_pos,         \* the pos argument of feature_linear_scaling_int
    sc_total,       \* its total argument
    sc_bin_count,   \* its bin_count argument
    sc_called,      \* whether feature_linear_scaling_int has been called
    sc_result,      \* what it returned
    tg_doc,         \* the LayoutDocument given to the per-token generator
    tg_next,        \* the number of the next token the generator reaches
    tg_rows,        \* the rows the generator has yielded so far
    tg_done,        \* whether the generator is exhausted
    li_self,        \* the LineIndentationStatusFeature object
    li_op,          \* the method last called on it
    li_token,       \* the token of the last get_is_indented_and_update
    li_before,      \* the object as it was before the last call
    li_returned,    \* what the last get_is_indented_and_update returned
    li_since_new_line, \* the calls of it since the last on_new_line (-1: none yet)
    li_calls,       \* the number of calls made on the object
    sg_doc,         \* the LayoutDocument given to the segmentation generator
    sg_next,        \* the number of the next line the generator reaches
    sg_rows,        \* the rows the generator has yielded so far
    sg_status,      \* "suspended", "exhausted" or the exception that ended it
    af_input,       \* the (tag, block) pairs given to the affiliation extractor
    af_pos,         \* the number of the next pair it consumes
    af_open,        \* the affiliation being aggregated, if any
    af_out,         \* the semantic contents it has yielded so far
    af_done,        \* whether it has reached the end of the input
    fg_input,       \* the (tag, block) pairs given to the figure extractor
    fg_consumed,    \* the number of pairs it has taken from its input
    fg_out,         \* the semantic contents it has yielded so far
    fg_state,       \* "created", "yielded" or "exhausted"
    ts_block,       \* the LayoutBlock given to iter_layout_block_tei_children
    ts_enable_coordinates, \* its enable_coordinates argument
    ts_pc,          \* where the generator is: "coords", "tokens" or "done"
    ts_pos,         \* the number of the next token of the block
    ts_locals,      \* pending_styles, pending_text and pending_whitespace
    ts_items,       \* the items yielded so far
    al_root,        \* the ALTO root element given to parse_alto_root
    al_status,      \* "not called", "returned" or the exception raised
    al_document,    \* the LayoutDocument parse_alto_root returned
    fs_tokens,      \* the tokens given to RelativeFontSizeFeature
    fs_called,      \* whether the feature was built and asked about every token
    fs_feature,     \* the RelativeFontSizeFeature object
    fs_flags,       \* for each token what the three methods returned
    gi_docs,        \* the documents of the two calls made on one data generator
    gi_pc,          \* for each call "created", "suspended" or "exhausted"
    gi_next,        \* for each call the number of the next token it reaches
    gi_locals,      \* the local variables, by the scope that holds them
    gi_rows,        \* for each call the rows it has yielded so far
    sv_path,        \* the path expression, as the (command, values) pairs iter_path_split and parse_path_values give
    sv_pos,         \* number of pairs iter_parse_path has consumed
    sv_parse,       \* locals of iter_parse_path: previous_x, previous_y, first_point
    sv_abs,         \* locals of iter_absolute_path_instructions: previous_x, previous_y
    sv_parsed,      \* the instructions iter_parse_path has yielded
    sv_out,         \* the instructions iter_absolute_path_instructions has yielded
    sv_status,      \* idle, running, done or AssertionError
    oc_lock,        \* self._lock: None when free, Some(thread) when held
    oc_tesser_api,  \* self._tesser_api: None or Some(index into oc_apis)
    oc_apis,        \* the PyTessBaseAPI objects created, each as the image it holds
    oc_pc,          \* each thread's position in predict_single
    oc_image,       \* each thread's image argument
    oc_local,       \* each thread's local variable tesser_api
    oc_result,      \* how each thread's last call ended
    oc_calls,       \* number of calls each thread has started
    cv_layout_model,\* self._layout_model: None or Some(model object)
    cv_loaded,      \* number of load_model invocations; the k-th returns model object k
    cv_pc,          \* each thread's position in predict_single
    cv_new,         \* the model object each thread's load_model returned
    cv_used,        \* the model object each thread's last call ran detect on
    cv_calls        \* number of calls each thread has started

rt_vars == <<rt_called, rt_token, rt_token_texts, rt_result>>

doc_vars == <<doc, doc_nodes, doc_op, doc_fn, doc_at_call, doc_result>>

tei_vars == <<tei, tei_appends, tei_called, tei_path, tei_at>>

bb_vars == <<bb_boxes, bb_called, bb_result>>

ft_vars == <<ft_text, ft_called, ft_capitalisation, ft_word_shape>>

sc_vars == <<sc_pos, sc_total, sc_bin_count, sc_called, sc_result>>

\* the document model and its helpers
layout_vars == <<rt_vars, doc_vars, tei_vars, bb_vars, ft_vars>>

\* the feature generators, the extractors and the parser
tg_vars == <<tg_doc, tg_next, tg_rows, tg_done>>

li_vars == <<li_self, li_op, li_token, li_before, li_returned,
             li_since_new_line, li_calls>>

sg_vars == <<sg_doc, sg_next, sg_rows, sg_status>>

af_vars == <<af_input, af_pos, af_open, af_out, af_done>>

fg_vars == <<fg_input, fg_consumed, fg_out, fg_state>>

ts_vars == <<ts_block, ts_enable_coordinates, ts_pc, ts_pos, ts_locals, ts_items>>

al_vars == <<al_root, al_status, al_document>>

fs_vars == <<fs_tokens, fs_called, fs_feature, fs_flags>>

gi_vars == <<gi_docs, gi_pc, gi_next, gi_locals, gi_rows>>

sv_vars == <<sv_path, sv_pos, sv_parse, sv_abs, sv_parsed, sv_out, sv_status>>

oc_vars == <<oc_lock, oc_tesser_api, oc_apis, oc_pc, oc_image, oc_local, oc_result, oc_calls>>

cv_vars == <<cv_layout_model, cv_loaded, cv_pc, cv_new, cv_used, cv_calls>>

pipeline_vars == <<sc_vars, tg_vars, li_vars, sg_vars, af_vars, fg_vars, ts_vars,
                   al_vars, fs_vars, gi_vars, sv_vars, oc_vars, cv_vars>>

vars == <<layout_vars, pipeline_vars>>

\* ------------------------------------------- inputs of retokenisation
RetokChars == {"a", "b", " "}

TextsOfLen(chars, n) == [1..n -> chars]

TextsUpTo(chars, n) == UNION {TextsOfLen(chars, k) : k \in 0..n}

\* every way a tokenizer can cut text into non-empty chunks
RECURSIVE Splits(_)
Splits(text) ==
    IF text = <<>> THEN {<<>>}
    ELSE UNION {
        {<<SubSeq(text, 1, k)>> \o rest :
            rest \in Splits(SubSeq(text, k + 1, Len(text)))} :
        k \in 1..Len(text)}

\* what tokenize_fn may return: a cut of the text, or the empty list
TokenizerResults(text) == Splits(text) \cup {<<>>}

SampleCoordinates ==
    {None} \cup
    {Some(LayoutCoordinates(Frac(10, 1), Frac(20, 1), Frac(w, 1), Frac(8, 1))) :
        w \in {6, 12}}

RetokTokens ==
    {LayoutToken(text, font, whitespace, coordinates) :
        text \in TextsUpTo(RetokChars, MaxTextLen) \ {<<>>},
        font \in Fonts,
        whitespace \in {<<>>, <<" ">>},
        coordinates \in SampleCoordinates}

\* ---------------------------------------------------------------- actions
\* a call of retokenize_layout_token with any token and tokenizer answer
RetokIdle ==
    /\ rt_called = FALSE
    /\ rt_token = LayoutToken(<<"a">>, EMPTY_FONT, <<" ">>, None)
    /\ rt_token_texts = <<>>
    /\ rt_result = <<>>

DocIdle ==
    /\ doc = LayoutDocument(<<>>)
    /\ doc_nodes = 0
    /\ doc_op = "none"
    /\ doc_fn = "none"
    /\ doc_at_call = LayoutDocument(<<>>)
    /\ doc_result = LayoutDocument(<<>>)

\* TeiDocument(): root = TEI_E.TEI()
TeiIdle ==
    /\ tei = TeiElement("TEI", "", FALSE)
    /\ tei_appends = 0
    /\ tei_called = FALSE
    /\ tei_path = <<>>
    /\ tei_at = <<>>

BoxIdle ==
    /\ bb_boxes = <<BoundingBox(0, 0, 0, 0)>>
    /\ bb_called = FALSE
    /\ bb_result = BoundingBox(0, 0, 0, 0)

FeatIdle ==
    /\ ft_text = <<>>
    /\ ft_called = FALSE
    /\ ft_capitalisation = ""
    /\ ft_word_shape = <<>>

ScaleIdle ==
    /\ sc_pos = 0
    /\ sc_total = 0
    /\ sc_bin_count = 0
    /\ sc_called = FALSE
    /\ sc_result = 0

TokenGenIdle ==
    /\ tg_doc = LayoutDocument(<<>>)
    /\ tg_next = 1
    /\ tg_rows = <<>>
    /\ tg_done = FALSE

IndentIdle ==
    /\ li_self = [line_start_x |-> None, is_new_line |-> TRUE, is_indented |-> FALSE]
    /\ li_op = "__init__"
    /\ li_token = LayoutToken(<<>>, EMPTY_FONT, <<" ">>, None)
    /\ li_before = li_self
    /\ li_returned = FALSE
    /\ li_since_new_line = -1
    /\ li_calls = 0

SegIdle ==
    /\ sg_doc = LayoutDocument(<<>>)
    /\ sg_next = 1
    /\ sg_rows = <<>>
    /\ sg_status = "suspended"

AffIdle ==
    /\ af_input = <<>>
    /\ af_pos = 1
    /\ af_open = None
    /\ af_out = <<>>
    /\ af_done = FALSE

FigureIdle ==
    /\ fg_input = <<>>
    /\ fg_consumed = 0
    /\ fg_out = <<>>
    /\ fg_state = "created"

TeiChildrenIdle ==
    /\ ts_block = LayoutBlock(<<>>)
    /\ ts_enable_coordinates = FALSE
    /\ ts_pc = "coords"
    /\ ts_pos = 1
    /\ ts_locals = [pending_styles |-> <<>>, pending_text |-> <<>>,
                    pending_whitespace |-> <<>>, yielded |-> <<>>]
    /\ ts_items = <<>>

AltoIdle ==
    /\ al_root = [tag |-> "alto", children |-> <<>>]
    /\ al_status = "not called"
    /\ al_document = LayoutDocument(<<>>)

FontSizeIdle ==
    /\ fs_tokens = <<>>
    /\ fs_called = FALSE
    /\ fs_feature = [largest_font_size |-> Frac(0, 1), smallest_font_size |-> Frac(0, 1),
                     mean_font_size |-> Frac(0, 1)]
    /\ fs_flags = <<>>

GenInstanceIdle ==
    /\ gi_docs = <<LayoutDocument(<<>>), LayoutDocument(<<>>)>>
    /\ gi_pc = <<"created", "created">>
    /\ gi_next = <<1, 1>>
    /\ gi_locals = <<[bound |-> FALSE], [bound |-> FALSE]>>
    /\ gi_rows = <<<<>>, <<>>>>

SvgIdle ==
    /\ sv_path = <<>>
    /\ sv_pos = 0
    /\ sv_parse = <<>>
    /\ sv_abs = <<>>
    /\ sv_parsed = <<>>
    /\ sv_out = <<>>
    /\ sv_status = "idle"

OcrIdle ==
    /\ oc_lock = None
    /\ oc_tesser_api = None
    /\ oc_apis = <<>>
    /\ oc_pc = [t \in 1..MaxOcrThreads |-> "idle"]
    /\ oc_image = [t \in 1..MaxOcrThreads |-> 0]
    /\ oc_local = [t \in 1..MaxOcrThreads |-> None]
    /\ oc_result = [t \in 1..MaxOcrThreads |-> [kind |-> "none"]]
    /\ oc_calls = [t \in 1..MaxOcrThreads |-> 0]

CvIdle ==
    /\ cv_layout_model = None
    /\ cv_loaded = 0
    /\ cv_pc = [t \in 1..MaxCvThreads |-> "idle"]
    /\ cv_new = [t \in 1..MaxCvThreads |-> None]
    /\ cv_used = [t \in 1..MaxCvThreads |-> None]
    /\ cv_calls = [t \in 1..MaxCvThreads |-> 0]

\* every part of the pipeline other than the named one is untouched
PipelineIdle(group) ==
    /\ (IF group = "sc" THEN TRUE ELSE ScaleIdle)
    /\ (IF group = "tg" THEN TRUE ELSE TokenGenIdle)
    /\ (IF group = "li" THEN TRUE ELSE IndentIdle)
    /\ (IF group = "sg" THEN TRUE ELSE SegIdle)
    /\ (IF group = "af" THEN TRUE ELSE AffIdle)
    /\ (IF group = "fg" THEN TRUE ELSE FigureIdle)
    /\ (IF group = "ts" THEN TRUE ELSE TeiChildrenIdle)
    /\ (IF group = "al" THEN TRUE ELSE AltoIdle)
    /\ (IF group = "fs" THEN TRUE ELSE FontSizeIdle)
    /\ (IF group = "gi" THEN TRUE ELSE GenInstanceIdle)
    /\ (IF group = "sv" THEN TRUE ELSE SvgIdle)
    /\ (IF group = "oc" THEN TRUE ELSE OcrIdle)
    /\ (IF group = "cv" THEN TRUE ELSE CvIdle)

PipelineUnchanged(group) ==
    /\ (IF group = "sc" THEN TRUE ELSE UNCHANGED sc_vars)
    /\ (IF group = "tg" THEN TRUE ELSE UNCHANGED tg_vars)
    /\ (IF group = "li" THEN TRUE ELSE UNCHANGED li_vars)
    /\ (IF group = "sg" THEN TRUE ELSE UNCHANGED sg_vars)
    /\ (IF group = "af" THEN TRUE ELSE UNCHANGED af_vars)
    /\ (IF group = "fg" THEN TRUE ELSE UNCHANGED fg_vars)
    /\ (IF group = "ts" THEN TRUE ELSE UNCHANGED ts_vars)
    /\ (IF group = "al" THEN TRUE ELSE UNCHANGED al_vars)
    /\ (IF group = "fs" THEN TRUE ELSE UNCHANGED fs_vars)
    /\ (IF group = "gi" THEN TRUE ELSE UNCHANGED gi_vars)
    /\ (IF group = "sv" THEN TRUE ELSE UNCHANGED sv_vars)
    /\ (IF group = "oc" THEN TRUE ELSE UNCHANGED oc_vars)
    /\ (IF group = "cv" THEN TRUE ELSE UNCHANGED cv_vars)

LayoutIdle == RetokIdle /\ DocIdle /\ TeiIdle /\ BoxIdle /\ FeatIdle

RetokInit ==
    /\ rt_called = FALSE
    /\ rt_token \in RetokTokens
    /\ rt_token_texts \in TokenizerResults(rt_token.text)
    /\ rt_result = <<>>
    /\ DocIdle
    /\ TeiIdle
    /\ BoxIdle
    /\ FeatIdle
    /\ PipelineIdle("")

Retokenize ==
    /\ ~rt_called
    /\ rt_called' = TRUE
    /\ rt_result' = retokenize_layout_token(rt_token, rt_token_texts)
    /\ UNCHANGED <<rt_token, rt_token_texts, doc_vars, tei_vars, bb_vars, ft_vars, pipeline_vars>>

RetokNext == Retokenize

SpecRetok == RetokInit /\ [][RetokNext]_vars

\* ------------------------------------------- layout document: actions
DocTokens ==
    {LayoutToken(<<"a", "b">>, "F1", <<" ">>,
                 Some(LayoutCoordinates(Frac(10, 1), Frac(20, 1), Frac(6, 1), Frac(8, 1)))),
     LayoutToken(<<" ">>, EMPTY_FONT, <<>>, None)}

DocInit == LayoutIdle /\ PipelineIdle("")

CanBuild == doc_op = "none" /\ doc_nodes < MaxDocNodes

Built(new_doc) ==
    /\ doc' = new_doc
    /\ doc_nodes' = doc_nodes + 1
    /\ UNCHANGED <<doc_op, doc_fn, doc_at_call, doc_result, rt_vars, tei_vars, bb_vars, ft_vars, pipeline_vars>>

LastIndex(seq) == Len(seq)

\* LayoutDocument.pages gets a further LayoutPage(blocks=[])
AddPage ==
    /\ CanBuild
    /\ Built(LayoutDocument(Append(doc.pages, LayoutPage(<<>>))))

\* the last page gets a further LayoutBlock(lines=[])
AddBlock ==
    /\ CanBuild
    /\ doc.pages # <<>>
    /\ LET p == LastIndex(doc.pages)
       IN  Built([doc EXCEPT !.pages[p].blocks = Append(@, LayoutBlock(<<>>))])

\* the last block gets a further LayoutLine(tokens=[])
AddLine ==
    /\ CanBuild
    /\ doc.pages # <<>>
    /\ LET p == LastIndex(doc.pages)
       IN  /\ doc.pages[p].blocks # <<>>
           /\ LET b == LastIndex(doc.pages[p].blocks)
              IN  Built([doc EXCEPT !.pages[p].blocks[b].lines =
                                        Append(@, LayoutLine(<<>>))])

\* the last line gets a further token
AddToken ==
    /\ CanBuild
    /\ doc.pages # <<>>
    /\ LET p == LastIndex(doc.pages)
       IN  /\ doc.pages[p].blocks # <<>>
           /\ LET b == LastIndex(doc.pages[p].blocks)
              IN  /\ doc.pages[p].blocks[b].lines # <<>>
                  /\ LET l == LastIndex(doc.pages[p].blocks[b].lines)
                     IN  \E token \in DocTokens :
                            Built([doc EXCEPT
                                !.pages[p].blocks[b].lines[l].tokens =
                                    Append(@, token)])

\* layout_document.flat_map_layout_tokens(fn): a new document is returned,
\* no field of the input is assigned
FlatMapLayoutTokens ==
    /\ doc_op = "none"
    /\ \E fn \in FlatMapFns :
        /\ doc_fn' = fn
        /\ doc_result' = LayoutDocument_flat_map_layout_tokens(doc, fn)
    /\ doc_op' = "flat_map_layout_tokens"
    /\ doc_at_call' = doc
    /\ UNCHANGED <<doc, doc_nodes, rt_vars, tei_vars, bb_vars, ft_vars, pipeline_vars>>

\* layout_document.remove_empty_blocks()
RemoveEmptyBlocks ==
    /\ doc_op = "none"
    /\ doc_result' = LayoutDocument_remove_empty_blocks(doc)
    /\ doc_op' = "remove_empty_blocks"
    /\ doc_at_call' = doc
    /\ UNCHANGED <<doc, doc_nodes, doc_fn, rt_vars, tei_vars, bb_vars, ft_vars, pipeline_vars>>

DocNext ==
    \/ AddPage
    \/ AddBlock
    \/ AddLine
    \/ AddToken
    \/ FlatMapLayoutTokens
    \/ RemoveEmptyBlocks

SpecDoc == DocInit /\ [][DocNext]_vars

\* ---------------------------------------------- TeiDocument: actions
TeiInit == LayoutIdle /\ PipelineIdle("")

\* the paths the program passes to get_or_create_element_at
ApiPaths ==
    {TitleStmtPath, AbstractPath, AnalyticPath, BodyPath, BackPath,
     BackAnnexPath}

\* path-element creation followed by the append of a new child element
CanAppend == tei_appends < MaxTeiAppends

TeiAppend(path, child) ==
    /\ tei' = set_child_element_at(tei, path, child)
    /\ tei_appends' = tei_appends + 1
    /\ tei_called' = TRUE
    /\ tei_path' = path
    /\ tei_at' = get_or_create_element_at(tei, path).at
    /\ UNCHANGED <<rt_vars, doc_vars, bb_vars, ft_vars, pipeline_vars>>

\* tei_document.get_or_create_element_at(path)
GetOrCreateElementAt ==
    \E path \in ApiPaths :
        LET r == get_or_create_element_at(tei, path)
        IN  /\ tei' = r.node
            /\ tei_called' = TRUE
            /\ tei_path' = path
            /\ tei_at' = r.at
            /\ UNCHANGED <<tei_appends, rt_vars, doc_vars, bb_vars, ft_vars, pipeline_vars>>

\* set_title / set_title_layout_block
SetTitle ==
    /\ CanAppend
    /\ TeiAppend(TitleStmtPath, TeiElement("title", "main", FALSE))

\* set_abstract / set_abstract_layout_block
SetAbstract ==
    /\ CanAppend
    /\ TeiAppend(AbstractPath, TeiElement("p", "", FALSE))

\* get_tei_for_semantic_document: an author of the front
AddAuthor ==
    /\ CanAppend
    /\ TeiAppend(AnalyticPath, TeiElement("author", "", FALSE))

\* add_body_section
AddBodySection ==
    /\ CanAppend
    /\ TeiAppend(BodyPath, TeiElement("div", "", FALSE))

\* get_body().add_note(...)
AddBodyNote ==
    /\ CanAppend
    /\ TeiAppend(BodyPath, TeiElement("note", "other", FALSE))

\* add_back_annex_section
AddBackAnnexSection ==
    /\ CanAppend
    /\ TeiAppend(BackAnnexPath, TeiElement("div", "", FALSE))

\* add_acknowledgement_section
AddAcknowledgementSection ==
    /\ CanAppend
    /\ TeiAppend(BackPath, TeiElement("div", "acknowledgement", FALSE))

\* get_back_annex().add_note(...)
AddBackAnnexNote ==
    /\ CanAppend
    /\ TeiAppend(BackAnnexPath, TeiElement("note", "other", FALSE))

TeiNext ==
    \/ GetOrCreateElementAt
    \/ SetTitle
    \/ SetAbstract
    \/ AddAuthor
    \/ AddBodySection
    \/ AddBodyNote
    \/ AddBackAnnexSection
    \/ AddAcknowledgementSection
    \/ AddBackAnnexNote

SpecTei == TeiInit /\ [][TeiNext]_vars

\* ---------------------------------------------- BoundingBox: actions
\* boxes of non-negative width and height, the empty ones included
SampleBoxes ==
    {BoundingBox(x, y, width, height) :
        x \in 0..MaxBoxPos, y \in {0, 1},
        width \in 0..MaxBoxSize, height \in {0, 2}}

\* a call of merge_bounding_boxes with any list of three boxes
BoxInit ==
    /\ bb_boxes \in [1..3 -> SampleBoxes]
    /\ bb_called = FALSE
    /\ bb_result = BoundingBox(0, 0, 0, 0)
    /\ RetokIdle /\ DocIdle /\ TeiIdle /\ FeatIdle
    /\ PipelineIdle("")

MergeBoundingBoxes ==
    /\ ~bb_called
    /\ bb_called' = TRUE
    /\ bb_result' = merge_bounding_boxes(bb_boxes)
    /\ UNCHANGED <<bb_boxes, rt_vars, doc_vars, tei_vars, ft_vars, pipeline_vars>>

BoxNext == MergeBoundingBoxes

SpecBox == BoxInit /\ [][BoxNext]_vars

\* ------------------------------------------- token features: actions
FeatChars == {"a", "c", "B", "1", "."}

\* the features of any token text
FeatInit ==
    /\ ft_text \in TextsUpTo(FeatChars, MaxFeatLen)
    /\ ft_called = FALSE
    /\ ft_capitalisation = ""
    /\ ft_word_shape = <<>>
    /\ RetokIdle /\ DocIdle /\ TeiIdle /\ BoxIdle
    /\ PipelineIdle("")

ComputeTokenFeatures ==
    /\ ~ft_called
    /\ ft_called' = TRUE
    /\ ft_capitalisation' = get_capitalisation_status(ft_text)
    /\ ft_word_shape' = get_word_shape_feature(ft_text)
    /\ UNCHANGED <<ft_text, rt_vars, doc_vars, tei_vars, bb_vars, pipeline_vars>>

FeatNext == ComputeTokenFeatures

SpecFeat == FeatInit /\ [][FeatNext]_vars

\* ------------------------------------------------ claims: retokenisation
\* each sub-token's text followed by its whitespace, in order
RECURSIVE JoinTextAndWhitespace(_)
JoinTextAndWhitespace(layout_tokens) ==
    IF layout_tokens = <<>> THEN <<>>
    ELSE Head(layout_tokens).text \o Head(layout_tokens).whitespace
         \o JoinTextAndWhitespace(Tail(layout_tokens))

\* the tokenizer cut the text into chunks whose concatenation is the text
RtProperSplit == rt_token_texts # <<>> /\ Concat(rt_token_texts) = rt_token.text

RECURSIVE SumWidths(_)
SumWidths(layout_tokens) ==
    IF layout_tokens = <<>> THEN Frac(0, 1)
    ELSE FracAdd(Head(layout_tokens).coordinates[1].width,
                 SumWidths(Tail(layout_tokens)))

\* the indexes of the chunks that are not whitespace-only, in order
RECURSIVE TextChunkIndexes(_, _)
TextChunkIndexes(chunks, k) ==
    IF k > Len(chunks) THEN <<>>
    ELSE (IF StripIsEmpty(chunks[k]) THEN <<>> ELSE <<k>>)
         \o TextChunkIndexes(chunks, k + 1)

\* the character offset in the original text of the i-th text chunk
ChunkOffset(chunks, i) ==
    SumLen(SubSeq(chunks, 1, TextChunkIndexes(chunks, 1)[i] - 1))

C2_WidthsSumToOriginal ==
    (/\ rt_called /\ RtProperSplit
     /\ \A k \in 1..Len(rt_token_texts) : ~StripIsEmpty(rt_token_texts[k])
     /\ rt_token.coordinates # None /\ rt_result # <<>>)
        => FracEq(SumWidths(rt_result), rt_token.coordinates[1].width)

\* C3: every sub-token has x = c.x + c.width * offset / L, width =
\* c.width * len(own text) / L, and the y, height and font of the original.
C3_SubTokenGeometry ==
    (rt_called /\ RtProperSplit /\ rt_token.coordinates # None)
        => \A i \in 1..Len(rt_result) :
            LET c == rt_token.coordinates[1]
                r == rt_result[i].coordinates[1]
                L == SumLen(rt_token_texts)
            IN  /\ FracEq(r.x, FracAdd(c.x, Frac(c.width[1] * ChunkOffset(rt_token_texts, i),
                                                 c.width[2] * L)))
                /\ FracEq(r.width, Frac(c.width[1] * Len(rt_result[i].text),
                                        c.width[2] * L))
                /\ r.y = c.y
                /\ r.height = c.height
                /\ rt_result[i].font = rt_token.font

\* C4: an empty tokenizer result for a text with a non-whitespace character
\* never makes retokenize_layout_token return an empty list.
C4_EmptyTokenizerResultKeepsToken ==
    (rt_called /\ rt_token_texts = <<>> /\ ~StripIsEmpty(rt_token.text))
        => rt_result # <<>>

\* ------------------------------------------------ claims: layout document
\* all lines of a document, in document order
AllLines(document) ==
    Concat([p \in 1..Len(document.pages) |->
        Concat([b \in 1..Len(document.pages[p].blocks) |->
            document.pages[p].blocks[b].lines])])

\* fn applied to each token of a line, the results concatenated in order
MappedTokens(tokens, fn) ==
    Concat([i \in 1..Len(tokens) |-> ApplyFn(fn, tokens[i])])

\* C5: flat_map_layout_tokens(fn) keeps the numbers of pages, of blocks in
\* each page and of lines in each block, the tokens of each result line are
\* the concatenation in token order of fn(token) over the input line, and
\* the input document is unchanged.
C5_FlatMapKeepsHierarchy ==
    doc_op = "flat_map_layout_tokens" =>
        /\ doc = doc_at_call
        /\ Len(doc_result.pages) = Len(doc.pages)
        /\ \A p \in 1..Len(doc.pages) :
            /\ Len(doc_result.pages[p].blocks) = Len(doc.pages[p].blocks)
            /\ \A b \in 1..Len(doc.pages[p].blocks) :
                /\ Len(doc_result.pages[p].blocks[b].lines)
                     = Len(doc.pages[p].blocks[b].lines)
                /\ \A l \in 1..Len(doc.pages[p].blocks[b].lines) :
                    doc_result.pages[p].blocks[b].lines[l].tokens
                      = MappedTokens(doc.pages[p].blocks[b].lines[l].tokens, doc_fn)

\* a line of two different tokens was mapped: one expanded, one contracted
C5_Witness ==
    /\ doc_op = "flat_map_layout_tokens"
    /\ doc_fn = "retokenize_chars"
    /\ \E p \in 1..Len(doc.pages) : \E b \in 1..Len(doc.pages[p].blocks) :
        \E l \in 1..Len(doc.pages[p].blocks[b].lines) :
            LET tokens == doc.pages[p].blocks[b].lines[l].tokens
            IN  /\ Len(tokens) = 3
                /\ tokens[1].text = <<"a", "b">>
                /\ tokens[2].text = <<" ">>
                /\ Len(doc_result.pages[p].blocks[b].lines[l].tokens) = 4

\* C6: remove_empty_blocks() leaves no line without tokens, no block without
\* lines and no page without blocks; the surviving lines are the input's
\* non-empty lines, unchanged and in their order; the input is unchanged.
C6_RemoveEmptyBlocks ==
    doc_op = "remove_empty_blocks" =>
        /\ doc = doc_at_call
        /\ \A p \in 1..Len(doc_result.pages) :
            /\ doc_result.pages[p].blocks # <<>>
            /\ \A b \in 1..Len(doc_result.pages[p].blocks) :
                /\ doc_result.pages[p].blocks[b].lines # <<>>
                /\ \A l \in 1..Len(doc_result.pages[p].blocks[b].lines) :
                    doc_result.pages[p].blocks[b].lines[l].tokens # <<>>
        /\ AllLines(doc_result)
             = SelectSeq(AllLines(doc), LAMBDA line : line.tokens # <<>>)

\* a document with an empty line beside a non-empty one, an empty block and
\* an empty page, of which one line survives
C6_Witness ==
    /\ doc_op = "remove_empty_blocks"
    /\ \E p \in 1..Len(doc.pages) : doc.pages[p].blocks = <<>>
    /\ \E p \in 1..Len(doc.pages) : \E b \in 1..Len(doc.pages[p].blocks) :
        doc.pages[p].blocks[b].lines = <<>>
    /\ \E p \in 1..Len(doc.pages) : \E b \in 1..Len(doc.pages[p].blocks) :
        /\ Len(doc.pages[p].blocks[b].lines) = 2
        /\ doc.pages[p].blocks[b].lines[1].tokens = <<>>
        /\ doc.pages[p].blocks[b].lines[2].tokens # <<>>
    /\ Len(AllLines(doc_result)) = 1
    /\ Len(doc_result.pages) = 1

\* ---------------------------------------------------- claims: TeiDocument
\* the tag-expression paths of the elements get_or_create_element_at made
RECURSIVE ApiElementPaths(_, _)
ApiElementPaths(node, prefix) ==
    Concat([k \in 1..Len(node.children) |->
        LET child == node.children[k]
            path == Append(prefix, TagExpression(child.tag, child.type))
        IN  (IF child.by_api THEN <<path>> ELSE <<>>)
            \o ApiElementPaths(child, path)])

NoDuplicates(seq) ==
    \A i, j \in 1..Len(seq) : i # j => seq[i] # seq[j]

\* C7: a second get_or_create_element_at call with the same path returns
\* the element the first call returned and adds no element, and no two
\* elements made by it have the same path.
C7_GetOrCreateIdempotent ==
    /\ tei_called =>
        get_or_create_element_at(tei, tei_path) = [node |-> tei, at |-> tei_at]
    /\ \A path \in ApiPaths :
        LET first == get_or_create_element_at(tei, path)
        IN  get_or_create_element_at(first.node, path) = first
    /\ NoDuplicates(ApiElementPaths(tei, <<>>))

\* the annex element was made after an acknowledgement div of the same
\* parent, and a later call with the annex path found it again
C7_Witness ==
    /\ tei_called
    /\ tei_path = BackAnnexPath
    /\ tei_appends = 2
    /\ tei_at = <<1, 1, 2>>
    /\ tei.children[1].children[1].children[1].type = "acknowledgement"
    /\ tei.children[1].children[1].children[2].children # <<>>

\* ---------------------------------------------------- claims: BoundingBox
Permutations3 ==
    {f \in [1..3 -> 1..3] : \A i, j \in 1..3 : i # j => f[i] # f[j]}

Permuted(boxes, f) == [i \in 1..3 |-> boxes[f[i]]]

IncludeAssociative(a, b, c) ==
    BoundingBox_include(BoundingBox_include(a, b), c)
        = BoundingBox_include(a, BoundingBox_include(b, c))

\* C8 as stated: for all boxes of non-negative size, the empty ones
\* included, include is commutative and associative and the merge of a list
\* is the same for every permutation of it.
C8_MergeOrderIndependent ==
    bb_called =>
        LET a == bb_boxes[1]
            b == bb_boxes[2]
            c == bb_boxes[3]
        IN  /\ BoundingBox_include(a, b) = BoundingBox_include(b, a)
            /\ IncludeAssociative(a, b, c)
            /\ \A f \in Permutations3 :
                merge_bounding_boxes(Permuted(bb_boxes, f)) = bb_result

\* C8 amended: include is commutative when at least one of the two boxes is
\* non-empty, it is associative for all boxes, and the merge of a list that
\* holds a non-empty box is the same for every permutation of it.
C8_MergeOrderIndependentNonEmpty ==
    bb_called =>
        LET a == bb_boxes[1]
            b == bb_boxes[2]
            c == bb_boxes[3]
        IN  /\ (~BoundingBox_is_empty(a) \/ ~BoundingBox_is_empty(b))
                => BoundingBox_include(a, b) = BoundingBox_include(b, a)
            /\ IncludeAssociative(a, b, c)
            /\ (\E i \in 1..3 : ~BoundingBox_is_empty(bb_boxes[i]))
                => \A f \in Permutations3 :
                    merge_bounding_boxes(Permuted(bb_boxes, f)) = bb_result

\* an empty box away from the origin, then two non-empty boxes apart from
\* each other, merged into the box around the two
C8_Witness ==
    /\ bb_called
    /\ bb_boxes[1] = BoundingBox(1, 1, 0, 2)
    /\ bb_boxes[2] = BoundingBox(1, 1, 1, 2)
    /\ bb_boxes[3] = BoundingBox(0, 0, 1, 2)
    /\ bb_result = BoundingBox(0, 0, 2, 3)

\* ------------------------------------------------- claims: token features
HasLower(text) == \E i \in 1..Len(text) : IsLowerChar(text[i])

HasLetter(text) == \E i \in 1..Len(text) : IsAlphaChar(text[i])

OnlyDigits(text) == \A i \in 1..Len(text) : IsDigitChar(text[i])

\* C9 as stated: NOCAPS for a text of digits only; otherwise ALLCAP exactly
\* when the text has no lowercase letter and has at least one letter;
\* otherwise INITCAP exactly when the first character is an uppercase
\* letter; otherwise NOCAPS.
C9_CapitalisationNeedsLetter ==
    ft_called =>
        ft_capitalisation =
            IF OnlyDigits(ft_text) THEN "NOCAPS"
            ELSE IF ~HasLower(ft_text) /\ HasLetter(ft_text) THEN "ALLCAP"
            ELSE IF IsUpperChar(ft_text[1]) THEN "INITCAP"
            ELSE "NOCAPS"

\* C9 amended: NOCAPS for a text of digits only; otherwise ALLCAP exactly
\* when the text has no lowercase letter (with or without a letter);
\* otherwise INITCAP exactly when the first character is an uppercase
\* letter; otherwise NOCAPS.
C9_Capitalisation ==
    ft_called =>
        ft_capitalisation =
            IF OnlyDigits(ft_text) THEN "NOCAPS"
            ELSE IF ~HasLower(ft_text) THEN "ALLCAP"
            ELSE IF IsUpperChar(ft_text[1]) THEN "INITCAP"
            ELSE "NOCAPS"

\* a text without any letter that is not all digits is ALLCAP
C9_Witness ==
    /\ ft_called
    /\ ft_text = <<"1", ".">>
    /\ ft_capitalisation = "ALLCAP"

\* the shape classes of a text, character by character
ShapeOf(text) == [i \in 1..Len(text) |-> get_char_shape_feature(text[i])]

\* a sequence with every run of equal consecutive elements reduced to one
RECURSIVE RunHeads(_)
RunHeads(seq) ==
    IF seq = <<>> THEN <<>>
    ELSE LET rest == RunHeads(Tail(seq))
         IN  IF rest # <<>> /\ rest[1] = Head(seq) THEN rest
             ELSE <<Head(seq)>> \o rest

\* C10: the word shape starts with the class of the first character, ends
\* with the classes of the last two characters, and holds in between the
\* classes of the middle characters with every run reduced to one; for a
\* text of at most three characters it is the whole shape string.
C10_WordShape ==
    ft_called =>
        LET shape == ShapeOf(ft_text)
            n == Len(ft_text)
        IN  /\ n <= 3 => ft_word_shape = shape
            /\ n >= 3 =>
                ft_word_shape
                    = <<shape[1]>> \o RunHeads(SubSeq(shape, 2, n - 2))
                      \o <<shape[n - 1], shape[n]>>

\* a text of six characters whose three middle characters have one class
C10_Witness ==
    /\ ft_called
    /\ ft_text = <<"B", "a", "c", "a", "1", ".">>
    /\ ft_word_shape = <<"X", "x", "d", ".">>

\* ------------------------------------------------ linear position scaling
NBBINS_POSITION == 12

\* a scaling that clamps to 0 before it clamps to bin_count
feature_linear_scaling_int_start_first(pos, total, bin_count) ==
    IF pos <= 0 THEN 0
    ELSE IF pos >= total THEN bin_count
    ELSE (pos * bin_count) \div total

\* math.floor((pos / total) * bin_count), reached with 0 < pos < total only.
\* The quotient is evaluated exactly; the float evaluation of the source
\* gives the same integer for every bin_count below 22.
feature_linear_scaling_int(pos, total, bin_count) ==
    IF pos >= total THEN bin_count
    ELSE IF pos <= 0 THEN 0
    ELSE (pos * bin_count) \div total

ScaleArgs == -1..MaxScaleArg

ScaleBinCounts == (0..MaxBinCount) \cup {NBBINS_POSITION}

\* a call of feature_linear_scaling_int with any integers
ScaleInit ==
    /\ sc_pos \in ScaleArgs
    /\ sc_total \in ScaleArgs
    /\ sc_bin_count \in ScaleBinCounts
    /\ sc_called = FALSE
    /\ sc_result = 0
    /\ LayoutIdle
    /\ PipelineIdle("sc")

FeatureLinearScalingInt ==
    /\ ~sc_called
    /\ sc_called' = TRUE
    /\ sc_result' = feature_linear_scaling_int(sc_pos, sc_total, sc_bin_count)
    /\ UNCHANGED <<sc_pos, sc_total, sc_bin_count, layout_vars>>
    /\ PipelineUnchanged("sc")

ScaleNext == FeatureLinearScalingInt

SpecScale == ScaleInit /\ [][ScaleNext]_vars

\* ------------------------------------------------------------- claim C12
\* r is the floor of pos * bin_count / total (total > 0)
IsFloorOfScaled(r, pos, total, bin_count) ==
    /\ r * total <= pos * bin_count
    /\ pos * bin_count < (r + 1) * total

\* C12 as stated: the result is 0 whenever pos <= 0, bin_count whenever
\* pos >= total and floor(pos * bin_count / total) otherwise, and it lies
\* in 0..bin_count.
C12_LinearScalingZeroAtStart ==
    sc_called =>
        /\ (sc_pos <= 0 => sc_result = 0)
        /\ (sc_pos >= sc_total => sc_result = sc_bin_count)
        /\ (sc_pos > 0 /\ sc_pos < sc_total =>
                IsFloorOfScaled(sc_result, sc_pos, sc_total, sc_bin_count))
        /\ sc_result \in 0..sc_bin_count

\* C12 amended: the result is bin_count whenever pos >= total (also when
\* pos <= 0, as for pos = total = 0), otherwise 0 when pos <= 0, otherwise
\* floor(pos * bin_count / total); it lies in 0..bin_count and the division
\* is reached with total > 0 only.
C12_LinearScalingEndFirst ==
    sc_called =>
        /\ (sc_pos >= sc_total => sc_result = sc_bin_count)
        /\ (sc_pos < sc_total /\ sc_pos <= 0 => sc_result = 0)
        /\ (sc_pos < sc_total /\ sc_pos > 0 =>
                /\ sc_total > 0
                /\ IsFloorOfScaled(sc_result, sc_pos, sc_total, sc_bin_count))
        /\ sc_result \in 0..sc_bin_count

\* a position at the start and at the end at once (the length of an empty
\* line text in a block whose longest line text is empty)
C12_Witness ==
    /\ sc_called
    /\ sc_pos = 0
    /\ sc_total = 0
    /\ sc_bin_count > 0
    /\ sc_result = sc_bin_count

\* ------------------------------------------- per-token feature generator
\* a line status that gives LINESTART precedence over LINEEND
get_line_status_start_first(token_index, token_count) ==
    IF token_index = 0 THEN "LINESTART"
    ELSE IF token_index = token_count - 1 THEN "LINEEND"
    ELSE "LINEIN"

get_line_status(token_index, token_count) ==
    IF token_index = token_count - 1 THEN "LINEEND"
    ELSE IF token_index = 0 THEN "LINESTART"
    ELSE "LINEIN"

get_block_status(line_index, line_count, line_status) ==
    IF line_index = line_count - 1 /\ line_status = "LINEEND" THEN "BLOCKEND"
    ELSE IF line_index = 0 /\ line_status = "LINESTART" THEN "BLOCKSTART"
    ELSE "BLOCKIN"

\* LayoutDocument.iter_all_blocks: the blocks of all pages in order
iter_all_blocks(document) ==
    Concat([i \in 1..Len(document.pages) |-> document.pages[i].blocks])

\* ContextAwareLayoutTokenFeatures(...) as built in the loop over the
\* tokens of one line; the indices are those of enumerate
\* (from 0); the line object is stood for by its position in the document
ContextAwareLayoutTokenFeatures(layout_token, layout_line, line_index, line_count, token_index, token_count) ==
    [layout_token |-> layout_token,
     layout_line |-> layout_line,
     line_index |-> line_index,
     line_count |-> line_count,
     token_index |-> token_index,
     token_count |-> token_count]

\* the features built by the three nested loops of
\* iter_model_data_for_layout_document, in the order they are built:
\* a line without tokens runs the inner loop zero times
LineTokenFeatures(block, block_index, line_index) ==
    LET line_tokens == block.lines[line_index + 1].tokens
    IN  [k \in 1..Len(line_tokens) |->
            ContextAwareLayoutTokenFeatures(
                line_tokens[k], <<block_index, line_index>>, line_index,
                Len(block.lines),
                k - 1, Len(line_tokens))]

BlockTokenFeatures(block, block_index) ==
    Concat([l \in 1..Len(block.lines) |->
               LineTokenFeatures(block, block_index, l - 1)])

DocumentTokenFeatures(document) ==
    LET blocks == iter_all_blocks(document)
    IN  Concat([b \in 1..Len(blocks) |-> BlockTokenFeatures(blocks[b], b - 1)])

\* the row a data generator yields for one token: the line and block
\* status of the token next to the token itself
TokenModelData(token_features) ==
    LET line_status == get_line_status(token_features.token_index,
                                       token_features.token_count)
    IN  [layout_token |-> token_features.layout_token,
         line_status |-> line_status,
         block_status |-> get_block_status(token_features.line_index,
                                           token_features.line_count,
                                           line_status)]


\* ---------------------------------- per-token feature generator: actions
GenToken == LayoutToken(<<"a">>, "F1", <<" ">>, None)

GenLines == {LayoutLine([k \in 1..n |-> GenToken]) : n \in 0..MaxGenTokens}

GenBlocks == {LayoutBlock(lines) : lines \in UNION {[1..n -> GenLines] : n \in 0..2}}

\* documents of one or two blocks, on one page or on two
GenDocuments ==
    {LayoutDocument(<<LayoutPage(<<b>>)>>) : b \in GenBlocks}
    \cup {LayoutDocument(<<LayoutPage(<<b1, b2>>)>>) : b1 \in GenBlocks, b2 \in GenBlocks}
    \cup {LayoutDocument(<<LayoutPage(<<b1>>), LayoutPage(<<b2>>)>>) :
              b1 \in GenBlocks, b2 \in GenBlocks}

\* iter_model_data_for_layout_document(tg_doc) was called: a generator
\* that has not run yet
TokenGenInit ==
    /\ tg_doc \in GenDocuments
    /\ tg_next = 1
    /\ tg_rows = <<>>
    /\ tg_done = FALSE
    /\ LayoutIdle
    /\ PipelineIdle("tg")

\* the generator is resumed and yields the row of the next token
NextTokenModelData ==
    /\ ~tg_done
    /\ tg_next <= Len(DocumentTokenFeatures(tg_doc))
    /\ tg_rows' = Append(tg_rows, TokenModelData(DocumentTokenFeatures(tg_doc)[tg_next]))
    /\ tg_next' = tg_next + 1
    /\ UNCHANGED <<tg_doc, tg_done, layout_vars>>
    /\ PipelineUnchanged("tg")

\* the generator is resumed after the last token: the loops end
TokenModelDataExhausted ==
    /\ ~tg_done
    /\ tg_next > Len(DocumentTokenFeatures(tg_doc))
    /\ tg_done' = TRUE
    /\ UNCHANGED <<tg_doc, tg_next, tg_rows, layout_vars>>
    /\ PipelineUnchanged("tg")

TokenGenNext ==
    \/ NextTokenModelData
    \/ TokenModelDataExhausted

SpecTokenGen == TokenGenInit /\ [][TokenGenNext]_vars

\* ------------------------------------------------------------- claim C11
\* the lines of the document, each as <<block index, line index>>
GenLinePositions ==
    {pos \in (0..1) \X (0..1) :
        /\ pos[1] < Len(iter_all_blocks(tg_doc))
        /\ pos[2] < Len(iter_all_blocks(tg_doc)[pos[1] + 1].lines)}

GenLineTokens(pos) == iter_all_blocks(tg_doc)[pos[1] + 1].lines[pos[2] + 1].tokens

\* the indices of the rows emitted for the tokens of the line at pos
RowsOfLine(pos) ==
    {k \in 1..Len(tg_rows) : DocumentTokenFeatures(tg_doc)[k].layout_line = pos}

RowsOfLineWithStatus(pos, status) ==
    {k \in RowsOfLine(pos) : tg_rows[k].line_status = status}

\* C11: the token at index i of a line of n tokens is LINEEND when
\* i = n - 1, otherwise LINESTART when i = 0, otherwise LINEIN; the only
\* token of a one-token line is LINEEND, and a line of two or more tokens
\* has exactly one LINESTART and exactly one LINEEND token.
C11_LineStatus ==
    /\ \A k \in 1..Len(tg_rows) :
          LET i == DocumentTokenFeatures(tg_doc)[k].token_index
              n == DocumentTokenFeatures(tg_doc)[k].token_count
          IN  /\ 0 <= i /\ i < n
              /\ tg_rows[k].line_status =
                     (IF i = n - 1 THEN "LINEEND"
                      ELSE IF i = 0 THEN "LINESTART" ELSE "LINEIN")
    /\ tg_done =>
          \A pos \in GenLinePositions :
              /\ Len(GenLineTokens(pos)) = 1 =>
                     RowsOfLineWithStatus(pos, "LINEEND") = RowsOfLine(pos)
              /\ Len(GenLineTokens(pos)) >= 2 =>
                     /\ Cardinality(RowsOfLineWithStatus(pos, "LINESTART")) = 1
                     /\ Cardinality(RowsOfLineWithStatus(pos, "LINEEND")) = 1

\* all rows of a document with a one-token line and a longer line are out
C11_Witness ==
    /\ tg_done
    /\ \E pos \in GenLinePositions :
          /\ Len(GenLineTokens(pos)) = 1
          /\ Cardinality(RowsOfLine(pos)) = 1
    /\ \E pos \in GenLinePositions :
          /\ Len(GenLineTokens(pos)) >= 3
          /\ Cardinality(RowsOfLine(pos)) = Len(GenLineTokens(pos))
          /\ RowsOfLineWithStatus(pos, "LINEIN") # {}

\* ----------------------------------------------------- indentation tracker
FracSub(p, q) == <<p[1] * q[2] - q[1] * p[2], p[2] * q[2]>>

\* p > q for fractions with positive denominators
FracGreater(p, q) == p[1] * q[2] > q[1] * p[2]

\* LineIndentationStatusFeature(): the fields set by __init__
LineIndentationStatusFeature ==
    [line_start_x |-> None, is_new_line |-> TRUE, is_indented |-> FALSE]

on_new_line(self) == [self EXCEPT !.is_new_line = TRUE]

\* the status after the comparison with the previous line start (lines
\* 198-203); character_width is coordinates.width / len(text)
IndentationAfterNewLineStart(self, layout_token) ==
    LET previous_line_start_x == self.line_start_x
        line_start_x == layout_token.coordinates[1].x
        width == layout_token.coordinates[1].width
        character_width == Frac(width[1], width[2] * Len(layout_token.text))
        after_increase ==
            IF FracGreater(FracSub(line_start_x, previous_line_start_x[1]),
                           character_width)
            THEN TRUE ELSE self.is_indented
    IN  IF previous_line_start_x = None THEN self.is_indented
        ELSE IF FracGreater(FracSub(previous_line_start_x[1], line_start_x),
                            character_width)
             THEN FALSE ELSE after_increase

\* a tracker that compares every token, not only the first of a line
get_is_indented_and_update_every_token(self, layout_token) ==
    IF layout_token.coordinates # None /\ layout_token.text # <<>>
    THEN [self EXCEPT
              !.line_start_x = Some(layout_token.coordinates[1].x),
              !.is_indented = IndentationAfterNewLineStart(self, layout_token),
              !.is_new_line = FALSE]
    ELSE [self EXCEPT !.is_new_line = FALSE]

\* the tracker after get_is_indented_and_update(layout_token); the value
\* returned is its is_indented
get_is_indented_and_update(self, layout_token) ==
    IF self.is_new_line /\ layout_token.coordinates # None /\ layout_token.text # <<>>
    THEN [self EXCEPT
              !.line_start_x = Some(layout_token.coordinates[1].x),
              !.is_indented = IndentationAfterNewLineStart(self, layout_token),
              !.is_new_line = FALSE]
    ELSE [self EXCEPT !.is_new_line = FALSE]

\* -------------------------------------------- indentation tracker: actions
IndentTexts == {<<>>, <<"a">>, <<"a", "b">>}

IndentCoordinates ==
    {None} \cup
    {Some(LayoutCoordinates(Frac(x, 1), Frac(0, 1), Frac(width, 1), Frac(1, 1))) :
        x \in 0..MaxIndentX, width \in {0, 1, 3}}

IndentTokens ==
    {LayoutToken(text, EMPTY_FONT, <<" ">>, coordinates) :
        text \in IndentTexts, coordinates \in IndentCoordinates}

IndentInit ==
    /\ li_self = LineIndentationStatusFeature
    /\ li_op = "__init__"
    /\ li_token = LayoutToken(<<>>, EMPTY_FONT, <<" ">>, None)
    /\ li_before = LineIndentationStatusFeature
    /\ li_returned = FALSE
    /\ li_since_new_line = -1
    /\ li_calls = 0
    /\ LayoutIdle
    /\ PipelineIdle("li")

OnNewLine ==
    /\ li_calls < MaxIndentCalls
    /\ li_calls' = li_calls + 1
    /\ li_op' = "on_new_line"
    /\ li_before' = li_self
    /\ li_self' = on_new_line(li_self)
    /\ li_since_new_line' = 0
    /\ UNCHANGED <<li_token, li_returned, layout_vars>>
    /\ PipelineUnchanged("li")

GetIsIndentedAndUpdate ==
    /\ li_calls < MaxIndentCalls
    /\ \E layout_token \in IndentTokens :
        /\ li_calls' = li_calls + 1
        /\ li_op' = "get_is_indented_and_update"
        /\ li_token' = layout_token
        /\ li_before' = li_self
        /\ li_self' = get_is_indented_and_update(li_self, layout_token)
        /\ li_returned' = get_is_indented_and_update(li_self, layout_token).is_indented
        /\ li_since_new_line' =
               IF li_since_new_line < 0 THEN li_since_new_line
               ELSE li_since_new_line + 1
    /\ UNCHANGED layout_vars
    /\ PipelineUnchanged("li")

IndentNext ==
    \/ OnNewLine
    \/ GetIsIndentedAndUpdate

SpecIndent == IndentInit /\ [][IndentNext]_vars

\* ------------------------------------------------------------- claim C13
\* the last call was get_is_indented_and_update, the first one after an
\* on_new_line(), with a token that has coordinates and a non-empty text
\* while a line start was known
IsComparingCall ==
    /\ li_op = "get_is_indented_and_update"
    /\ li_since_new_line = 1
    /\ li_token.coordinates # None
    /\ li_token.text # <<>>
    /\ li_before.line_start_x # None

\* x minus the known line start, times len(text), against the width:
\* the difference exceeds width / len(text) exactly when this is positive
IndentExcess(x, start_x) ==
    (x[1] * start_x[2] - start_x[1] * x[2]) * Len(li_token.text) * li_token.coordinates[1].width[2]
    - li_token.coordinates[1].width[1] * x[2] * start_x[2]

\* C13: the indentation status changes only on the first
\* get_is_indented_and_update call after on_new_line(); on that call it
\* becomes indented if the token's x exceeds the known line start by more
\* than width / len(text), not indented if it is smaller by more than that,
\* and otherwise keeps its value; every other call leaves it unchanged, and
\* the call returns the status.
C13_IndentationTransitions ==
    /\ li_op = "get_is_indented_and_update" => li_returned = li_self.is_indented
    /\ IsComparingCall =>
          LET x == li_token.coordinates[1].x
              start_x == li_before.line_start_x[1]
          IN  li_self.is_indented =
                  (IF IndentExcess(x, start_x) > 0 THEN TRUE
                   ELSE IF IndentExcess(start_x, x) > 0 THEN FALSE
                   ELSE li_before.is_indented)
    /\ ~IsComparingCall => li_self.is_indented = li_before.is_indented

\* a line start to the right made the status indented, or one to the left
\* made it not indented again
C13_Witness ==
    /\ IsComparingCall
    /\ li_before.is_indented
    /\ ~li_self.is_indented

\* -------------------------------------------------- segmentation features
\* LayoutFont as parse_font builds it; an Optional field is None or Some(v)
LayoutFont(font_id, font_family, font_size, is_bold, is_italics, is_subscript, is_superscript) ==
    [font_id |-> font_id, font_family |-> font_family, font_size |-> font_size,
     is_bold |-> is_bold, is_italics |-> is_italics,
     is_subscript |-> is_subscript, is_superscript |-> is_superscript]

\* EMPTY_FONT = LayoutFont(font_id='_EMPTY') as an object with its fields
EMPTY_LAYOUT_FONT == LayoutFont(EMPTY_FONT, None, None, None, None, None, None)

NBSP == "NBSP"

LINESCALE == 10

\* the separators of re.split(r" |\t|\f| ", line_text)
IsSegmentationSeparator(ch) == ch \in {" ", "\t", "\f", NBSP}

\* re.split: the pieces between the separators, always at least one piece
RECURSIVE re_split(_)
re_split(text) ==
    IF \A i \in 1..Len(text) : ~IsSegmentationSeparator(text[i]) THEN <<text>>
    ELSE LET i == CHOOSE j \in 1..Len(text) :
                      /\ IsSegmentationSeparator(text[j])
                      /\ \A k \in 1..(j - 1) : ~IsSegmentationSeparator(text[k])
         IN  <<SubSeq(text, 1, i - 1)>> \o re_split(SubSeq(text, i + 1, Len(text)))

\* str.strip()
RECURSIVE strip(_)
strip(text) ==
    IF text = <<>> THEN text
    ELSE IF IsSpaceChar(Head(text)) THEN strip(Tail(text))
    ELSE IF IsSpaceChar(text[Len(text)]) THEN strip(SubSeq(text, 1, Len(text) - 1))
    ELSE text

\* re.sub(" |\t", NBSP, text.strip())
format_feature_text(text) ==
    [i \in 1..Len(strip(text)) |->
        IF strip(text)[i] \in {" ", "\t"} THEN NBSP ELSE strip(text)[i]]

\* LayoutLine.text: the texts of the tokens, each but the last followed by
\* its whitespace
RECURSIVE LayoutLine_text(_)
LayoutLine_text(line) ==
    IF line.tokens = <<>> THEN <<>>
    ELSE IF Len(line.tokens) = 1 THEN line.tokens[1].text
    ELSE line.tokens[1].text \o line.tokens[1].whitespace
         \o LayoutLine_text(LayoutLine(Tail(line.tokens)))

\* a block status that gives BLOCKEND precedence over BLOCKSTART
segmentation_get_block_status_end_first(line_index, line_count) ==
    IF line_index = line_count - 1 THEN "BLOCKEND"
    ELSE IF line_index = 0 THEN "BLOCKSTART"
    ELSE "BLOCKIN"

\* segmentation get_block_status(line_index, line_count)
segmentation_get_block_status(line_index, line_count) ==
    IF line_index = 0 THEN "BLOCKSTART"
    ELSE IF line_index = line_count - 1 THEN "BLOCKEND"
    ELSE "BLOCKIN"

get_page_status(block_index, block_count, block_status) ==
    IF block_index = 0 /\ block_status = "BLOCKSTART" THEN "PAGESTART"
    ELSE IF block_index = block_count - 1 /\ block_status = "BLOCKEND" THEN "PAGEEND"
    ELSE "PAGEIN"

\* previous_token is None or Some(token)
get_token_font_status(previous_token, current_token) ==
    IF previous_token = None THEN "NEWFONT"
    ELSE IF current_token.font.font_family = previous_token[1].font.font_family
         THEN "SAMEFONT" ELSE "NEWFONT"

\* a font size is None or Some(n) with n an integer; 0 is falsy as None is
get_token_font_size_feature(previous_token, current_token) ==
    IF previous_token = None THEN "HIGHERFONT"
    ELSE LET previous_font_size == previous_token[1].font.font_size
             current_font_size == current_token.font.font_size
         IN  IF previous_font_size \in {None, Some(0)}
                \/ current_font_size \in {None, Some(0)}
             THEN "HIGHERFONT"
             ELSE IF previous_font_size[1] < current_font_size[1] THEN "HIGHERFONT"
             ELSE IF previous_font_size[1] > current_font_size[1] THEN "LOWERFONT"
             ELSE "SAMEFONTSIZE"

\* '1' if value else '0' for an Optional[bool]
get_str_bool_feature_value(value) == IF value = Some(TRUE) THEN "1" ELSE "0"

\* str.lower() on the characters of the model
get_lower_token_text(token_text) ==
    [i \in 1..Len(token_text) |-> IF token_text[i] = "B" THEN "b" ELSE token_text[i]]

\* the first n characters, fewer if the text is shorter
get_prefix(token_text, n) == TakeFirst(token_text, n)

\* the punctuation characters of the line text, "no" if there is none
get_line_punctuation_profile(line_text) ==
    IF SelectSeq(line_text, LAMBDA ch : ch = ".") = <<>> THEN <<"no">>
    ELSE SelectSeq(line_text, LAMBDA ch : ch = ".")

\* the lines of the document in the order iter_line_features reaches them;
\* a block without lines is reached as one step, max() of no line text
SegmentationBlockSteps(page_index, page_blocks, block_index) ==
    LET block_lines == page_blocks[block_index + 1].lines
    IN  IF block_lines = <<>>
        THEN <<[kind |-> "max_of_empty_sequence",
                page_blocks |-> page_blocks,
                page_block_index |-> block_index,
                block_lines |-> block_lines,
                block_line_index |-> 0,
                layout_line |-> LayoutLine(<<>>),
                line_position |-> <<page_index, block_index, 0>>]>>
        ELSE [l \in 1..Len(block_lines) |->
                [kind |-> "line",
                 page_blocks |-> page_blocks,
                 page_block_index |-> block_index,
                 block_lines |-> block_lines,
                 block_line_index |-> l - 1,
                 layout_line |-> block_lines[l],
                 line_position |-> <<page_index, block_index, l - 1>>]]

SegmentationSteps(document) ==
    Concat([p \in 1..Len(document.pages) |->
        Concat([b \in 1..Len(document.pages[p].blocks) |->
            SegmentationBlockSteps(p - 1, document.pages[p].blocks, b - 1)])])

\* sum(len(line.tokens) for block in iter_all_blocks() for line in block.lines)
document_token_count(document) ==
    SumLen([k \in 1..Len(SegmentationSteps(document)) |->
               SegmentationSteps(document)[k].layout_line.tokens])

\* the SegmentationLineFeatures object as it is when it is yielded for
\* the k-th step (lines 133-154)
SegmentationLineFeatures(document, k) ==
    LET steps == SegmentationSteps(document)
        step == steps[k]
        line_text == LayoutLine_text(step.layout_line)
        retokenized_token_texts == re_split(line_text)
        block_line_text_lengths ==
            {Len(LayoutLine_text(step.block_lines[l])) : l \in 1..Len(step.block_lines)}
    IN  [layout_token |-> step.layout_line.tokens[1],
         layout_line |-> step.line_position,
         line_text |-> line_text,
         token_text |-> strip(retokenized_token_texts[1]),
         second_token_text |->
             IF Len(retokenized_token_texts) >= 2
             THEN retokenized_token_texts[2] ELSE <<>>,
         page_blocks |-> step.page_blocks,
         page_block_index |-> step.page_block_index,
         block_lines |-> step.block_lines,
         block_line_index |-> step.block_line_index,
         previous_layout_token |->
             IF k = 1 THEN None ELSE Some(steps[k - 1].layout_line.tokens[1]),
         max_block_line_text_length |->
             CHOOSE n \in block_line_text_lengths :
                 \A m \in block_line_text_lengths : m <= n,
         document_token_count |-> document_token_count(document),
         document_token_index |->
             SumLen([j \in 1..(k - 1) |-> steps[j].layout_line.tokens])]

\* a feature list without the whole-line feature
line_features_without_whole_line(features) ==
    [i \in 1..33 |-> <<"0">>]

\* the list line_features of lines 171-206; every feature is a text, a
\* status or number being a text of one symbol
line_features(features) ==
    LET block_status == segmentation_get_block_status(
            features.block_line_index, Len(features.block_lines))
    IN  << features.token_text,
           IF features.second_token_text # <<>>
           THEN features.second_token_text ELSE features.token_text,
           get_lower_token_text(features.token_text),
           get_prefix(features.token_text, 1),
           get_prefix(features.token_text, 2),
           get_prefix(features.token_text, 3),
           get_prefix(features.token_text, 4),
           <<block_status>>,
           <<get_page_status(features.page_block_index,
                             Len(features.page_blocks), block_status)>>,
           <<get_token_font_status(features.previous_layout_token,
                                   features.layout_token)>>,
           <<get_token_font_size_feature(features.previous_layout_token,
                                         features.layout_token)>>,
           <<get_str_bool_feature_value(features.layout_token.font.is_bold)>>,
           <<get_str_bool_feature_value(features.layout_token.font.is_italics)>>,
           <<get_capitalisation_status(features.token_text)>>,
           <<get_digit_feature(features.token_text)>>,
           <<IF Len(features.token_text) = 1 THEN "1" ELSE "0">>,
           <<"0">>, <<"0">>, <<"0">>, <<"0">>, <<"0">>, <<"0">>, <<"0">>,
           <<ToString(feature_linear_scaling_int(
                 features.document_token_index,
                 features.document_token_count, NBBINS_POSITION))>>,
           <<"0">>,
           get_line_punctuation_profile(features.line_text),
           <<ToString(Len(get_line_punctuation_profile(features.line_text)))>>,
           <<ToString(feature_linear_scaling_int(
                 Len(features.line_text),
                 features.max_block_line_text_length, LINESCALE))>>,
           <<"0">>, <<"0">>, <<"0">>, <<"0">>, <<"1">>,
           format_feature_text(features.line_text) >>

\* ' '.join(line_features)
RECURSIVE join_with_space(_)
join_with_space(texts) ==
    IF texts = <<>> THEN <<>>
    ELSE IF Len(texts) = 1 THEN Head(texts)
    ELSE Head(texts) \o <<" ">> \o join_with_space(Tail(texts))

\* LayoutModelData(layout_line=features.layout_line, data_line=...)
SegmentationModelData(features) ==
    [layout_line |-> features.layout_line,
     line_features |-> line_features(features),
     data_line |-> join_with_space(line_features(features))]

\* ------------------------------------------ segmentation features: actions
SegFont1 == LayoutFont("F1", Some("family1"), Some(10), Some(FALSE), Some(FALSE), None, None)

SegFont2 == LayoutFont("F2", Some("family2"), Some(12), Some(TRUE), Some(FALSE), None, None)

SegTokens ==
    {LayoutToken(<<"a">>, SegFont1, <<" ">>, None),
     LayoutToken(<<"B", ".">>, SegFont2, <<" ">>, None)}

SegLines == {LayoutLine(tokens) : tokens \in UNION {[1..n -> SegTokens] : n \in 0..MaxSegTokens}}

SegBlocks == {LayoutBlock(lines) : lines \in UNION {[1..n -> SegLines] : n \in 0..2}}

\* a block without lines, a block of a line without tokens, a block of a
\* line whose token has an empty text, and a block of two lines
SegSecondBlocks ==
    {LayoutBlock(<<>>),
     LayoutBlock(<<LayoutLine(<<>>)>>),
     LayoutBlock(<<LayoutLine(<<LayoutToken(<<>>, EMPTY_LAYOUT_FONT, <<" ">>, None)>>)>>),
     LayoutBlock(<<LayoutLine(<<LayoutToken(<<"a">>, SegFont1, <<" ">>, None)>>),
                   LayoutLine(<<LayoutToken(<<"a">>, SegFont2, <<" ">>, None)>>)>>)}

SegDocuments ==
    {LayoutDocument(<<LayoutPage(<<b>>)>>) : b \in SegBlocks}
    \cup {LayoutDocument(<<LayoutPage(<<b1, b2>>)>>) : b1 \in SegBlocks, b2 \in SegSecondBlocks}
    \cup {LayoutDocument(<<LayoutPage(<<b1>>), LayoutPage(<<b2>>)>>) :
              b1 \in SegBlocks, b2 \in SegSecondBlocks}

\* iter_model_data_for_layout_document(sg_doc) was called: a generator
\* that has not run yet
SegInit ==
    /\ sg_doc \in SegDocuments
    /\ sg_next = 1
    /\ sg_rows = <<>>
    /\ sg_status = "suspended"
    /\ LayoutIdle
    /\ PipelineIdle("sg")

SegRunning ==
    /\ sg_status = "suspended"
    /\ sg_next <= Len(SegmentationSteps(sg_doc))

SegEnds(status) ==
    /\ sg_status' = status
    /\ UNCHANGED <<sg_doc, sg_next, sg_rows, layout_vars>>
    /\ PipelineUnchanged("sg")

\* the generator is resumed and builds the feature list of the next line:
\* it yields the row, or raises if the list has not 34 entries (line 208)
NextSegmentationModelData ==
    /\ SegRunning
    /\ SegmentationSteps(sg_doc)[sg_next].kind = "line"
    /\ SegmentationSteps(sg_doc)[sg_next].layout_line.tokens # <<>>
    /\ IF Len(line_features(SegmentationLineFeatures(sg_doc, sg_next))) # 34
       THEN /\ sg_status' = "AssertionError"
            /\ UNCHANGED <<sg_next, sg_rows>>
       ELSE /\ sg_rows' = Append(sg_rows,
                   SegmentationModelData(SegmentationLineFeatures(sg_doc, sg_next)))
            /\ sg_next' = sg_next + 1
            /\ UNCHANGED sg_status
    /\ UNCHANGED <<sg_doc, layout_vars>>
    /\ PipelineUnchanged("sg")

\* the next line has no token: re.split gives at least one piece, so the
\* line is not skipped and line_tokens[0] raises (lines 142-145)
SegmentationIndexError ==
    /\ SegRunning
    /\ SegmentationSteps(sg_doc)[sg_next].kind = "line"
    /\ SegmentationSteps(sg_doc)[sg_next].layout_line.tokens = <<>>
    /\ re_split(LayoutLine_text(SegmentationSteps(sg_doc)[sg_next].layout_line)) # <<>>
    /\ SegEnds("IndexError")

\* the next block has no line: max() of an empty sequence raises (line 131)
SegmentationValueError ==
    /\ SegRunning
    /\ SegmentationSteps(sg_doc)[sg_next].kind = "max_of_empty_sequence"
    /\ SegEnds("ValueError")

\* the generator is resumed after the last line: the loops end
SegmentationModelDataExhausted ==
    /\ sg_status = "suspended"
    /\ sg_next > Len(SegmentationSteps(sg_doc))
    /\ SegEnds("exhausted")

SegNext ==
    \/ NextSegmentationModelData
    \/ SegmentationIndexError
    \/ SegmentationValueError
    \/ SegmentationModelDataExhausted

SpecSeg == SegInit /\ [][SegNext]_vars


\* ------------------------------------------------------------- claim C14
\* str.split(' '): the pieces between the single spaces
RECURSIVE split_on_space(_)
split_on_space(text) ==
    IF \A i \in 1..Len(text) : text[i] # " " THEN <<text>>
    ELSE LET i == CHOOSE j \in 1..Len(text) :
                      /\ text[j] = " "
                      /\ \A k \in 1..(j - 1) : text[k] # " "
         IN  <<SubSeq(text, 1, i - 1)>> \o split_on_space(SubSeq(text, i + 1, Len(text)))

\* C14: every row emitted by SegmentationDataGenerator has exactly 34
\* fields: its feature list has 34 entries and its data line, cut at the
\* spaces, gives these 34 entries back; the list never has another length,
\* so the AssertionError guarding it is never raised.
C14_RowsHave34Fields ==
    /\ sg_status # "AssertionError"
    /\ \A k \in 1..Len(sg_rows) :
          /\ Len(sg_rows[k].line_features) = 34
          /\ Len(split_on_space(sg_rows[k].data_line)) = 34
          /\ split_on_space(sg_rows[k].data_line) = sg_rows[k].line_features

\* rows are out, the last one for a line whose first token text is empty
C14_Witness ==
    /\ Len(sg_rows) >= 2
    /\ sg_rows[Len(sg_rows)].line_features[1] = <<>>
    /\ sg_rows[1].line_features[1] # <<>>

\* ------------------------------------------------------------- claim C15
\* the positions of the lines of the document that have a token
SegLinePositionsWithTokens ==
    LET steps == SelectSeq(SegmentationSteps(sg_doc),
                           LAMBDA step : step.layout_line.tokens # <<>>)
    IN  [k \in 1..Len(steps) |-> steps[k].line_position]

\* C15 (segmentation generator): a line without tokens is skipped without
\* an exception, and the rows of all other lines are emitted.
C15_EmptyLineSkipped ==
    /\ sg_status # "IndexError"
    /\ sg_status = "exhausted" =>
          [k \in 1..Len(sg_rows) |-> sg_rows[k].layout_line] = SegLinePositionsWithTokens

\* C15 (per-token generator): the rows emitted are those of the tokens of
\* the lines that have tokens, in order; a line without tokens adds none.
C15_TokenGeneratorSkipsEmptyLine ==
    tg_done =>
        /\ Len(tg_rows) = SumLen([b \in 1..Len(iter_all_blocks(tg_doc)) |->
               Concat([l \in 1..Len(iter_all_blocks(tg_doc)[b].lines) |->
                   iter_all_blocks(tg_doc)[b].lines[l].tokens])])
        /\ \A pos \in GenLinePositions :
               Cardinality(RowsOfLine(pos)) = Len(GenLineTokens(pos))

\* ----------------------------------------------- tag-to-semantic extraction
\* a semantic content: a leaf wrapping the text of a layout block, or an
\* aggregate holding contents
SemanticContent(type, text, content) ==
    [type |-> type, text |-> text, content |-> content]

\* the tag -> semantic class table of the affiliation-address extractor
AffiliationClassByTag(tag) ==
    CASE tag = "<marker>" -> "SemanticMarker"
      [] tag = "<institution>" -> "SemanticInstitution"
      [] tag = "<country>" -> "SemanticCountry"
      [] OTHER -> "SemanticNote"

has_type(aggregate, type) ==
    \E i \in 1..Len(aggregate.content) : aggregate.content[i].type = type

\* a split on the repeated marker only
is_new_affiliation_on_marker_only(open, tag) ==
    /\ open # None
    /\ tag = "<marker>"
    /\ has_type(open[1], AffiliationClassByTag(tag))

\* the tag signals a new affiliation: a repeated marker or a repeated
\* institution while an affiliation is open
is_new_affiliation(open, tag) ==
    /\ open # None
    /\ tag \in {"<marker>", "<institution>"}
    /\ has_type(open[1], AffiliationClassByTag(tag))

\* the open affiliation with one more leaf, opened first if none is open
with_added_content(open, leaf) ==
    IF open = None
    THEN Some(SemanticContent("SemanticAffiliationAddress", <<>>, <<leaf>>))
    ELSE Some([open[1] EXCEPT !.content = Append(@, leaf)])

\* ------------------------------------ affiliation-address extractor: actions
EntityTexts == {"A", "B"}

AffiliationTags == {"O", "<marker>", "<institution>", "<country>"}

AffiliationEntityBlocks ==
    UNION {[1..n -> AffiliationTags \X EntityTexts] : n \in 0..MaxEntityBlocks}

\* iter_semantic_content_for_entity_blocks(af_input) was called
AffInit ==
    /\ af_input \in AffiliationEntityBlocks
    /\ af_pos = 1
    /\ af_open = None
    /\ af_out = <<>>
    /\ af_done = FALSE
    /\ LayoutIdle
    /\ PipelineIdle("af")

AffNextTag == af_input[af_pos][1]

AffNextLeaf ==
    SemanticContent(AffiliationClassByTag(AffNextTag), af_input[af_pos][2], <<>>)

AffConsumes ==
    /\ ~af_done
    /\ af_pos <= Len(af_input)
    /\ af_pos' = af_pos + 1
    /\ UNCHANGED <<af_input, af_done, layout_vars>>
    /\ PipelineUnchanged("af")

\* an 'O' block: a standalone note is emitted, the open affiliation stays
AffOther ==
    /\ AffConsumes
    /\ AffNextTag = "O"
    /\ af_out' = Append(af_out, AffNextLeaf)
    /\ UNCHANGED af_open

\* a new instance: the open affiliation is emitted, a fresh one is opened
AffNewInstance ==
    /\ AffConsumes
    /\ AffNextTag # "O"
    /\ is_new_affiliation(af_open, AffNextTag)
    /\ af_out' = Append(af_out, af_open[1])
    /\ af_open' = with_added_content(None, AffNextLeaf)

\* any other leaf: added to the open affiliation
AffAddContent ==
    /\ AffConsumes
    /\ AffNextTag # "O"
    /\ ~is_new_affiliation(af_open, AffNextTag)
    /\ af_open' = with_added_content(af_open, AffNextLeaf)
    /\ UNCHANGED af_out

\* end of input: the affiliation still open is emitted
AffFlush ==
    /\ ~af_done
    /\ af_pos > Len(af_input)
    /\ af_done' = TRUE
    /\ af_out' = IF af_open = None THEN af_out ELSE Append(af_out, af_open[1])
    /\ af_open' = None
    /\ UNCHANGED <<af_input, af_pos, layout_vars>>
    /\ PipelineUnchanged("af")

AffNext ==
    \/ AffOther
    \/ AffNewInstance
    \/ AffAddContent
    \/ AffFlush

SpecAff == AffInit /\ [][AffNext]_vars

\* ------------------------------------------------------------- claim C16
\* C16: an <institution> block that arrives while the open affiliation
\* already holds an institution makes the extractor emit the open
\* affiliation and open a new one that starts with this institution; and
\* [(marker, 1), (institution, A), (institution, B)] yields exactly two
\* affiliations, the first holding the marker and institution A, the
\* second starting with institution B.
C16_SplitOnRepeatedInstitution ==
    /\ [][(/\ ~af_done
           /\ af_pos <= Len(af_input)
           /\ af_input[af_pos][1] = "<institution>"
           /\ af_open # None
           /\ has_type(af_open[1], "SemanticInstitution"))
          => (/\ af_out' = Append(af_out, af_open[1])
              /\ af_open' = Some(SemanticContent("SemanticAffiliationAddress", <<>>,
                     <<SemanticContent("SemanticInstitution", af_input[af_pos][2], <<>>)>>)))
         ]_vars
    /\ [](af_done /\ af_input = << <<"<marker>", "A">>, <<"<institution>", "A">>,
                                  <<"<institution>", "B">> >>
          => af_out = << SemanticContent("SemanticAffiliationAddress", <<>>,
                             << SemanticContent("SemanticMarker", "A", <<>>),
                                SemanticContent("SemanticInstitution", "A", <<>>) >>),
                         SemanticContent("SemanticAffiliationAddress", <<>>,
                             << SemanticContent("SemanticInstitution", "B", <<>>) >>) >>)

\* the second institution has arrived: the first affiliation is out and
\* the open one starts with the second institution
C16_Witness ==
    /\ af_input = << <<"<marker>", "A">>, <<"<institution>", "A">>,
                     <<"<institution>", "B">> >>
    /\ af_pos = 4
    /\ Len(af_out) = 1
    /\ has_type(af_out[1], "SemanticMarker")
    /\ has_type(af_out[1], "SemanticInstitution")
    /\ af_open # None
    /\ af_open[1].content[1].text = "B"

\* --------------------------------------------------------- figure extractor
\* SIMPLE_SEMANTIC_CONTENT_CLASS_BY_TAG, and a note for any other tag
FigureClassByTag(tag) ==
    CASE tag = "<label>" -> "SemanticLabel"
      [] tag = "<figDesc>" -> "SemanticCaption"
      [] OTHER -> "SemanticNote"

get_semantic_content_for_entity_name(name, layout_block) ==
    SemanticContent(FigureClassByTag(name), layout_block, <<>>)

\* the loop of lines 36-42: the figure after all entity blocks were added,
\* None if there was no block
\* a figure that holds the first entity block only
FigureOfFirstEntityBlock(figure, entity_tokens) ==
    IF entity_tokens = <<>> THEN figure
    ELSE Some(SemanticContent("SemanticFigure", <<>>,
             <<SemanticContent("SemanticNote", Head(entity_tokens)[2], <<>>)>>))

RECURSIVE FigureOfEntityBlocks(_, _)
FigureOfEntityBlocks(figure, entity_tokens) ==
    IF entity_tokens = <<>> THEN figure
    ELSE LET opened == IF figure = None
                       THEN SemanticContent("SemanticFigure", <<>>, <<>>)
                       ELSE figure[1]
             semantic_content == get_semantic_content_for_entity_name(
                 Head(entity_tokens)[1], Head(entity_tokens)[2])
         IN  FigureOfEntityBlocks(
                 Some([opened EXCEPT !.content = Append(@, semantic_content)]),
                 Tail(entity_tokens))

FigureTags == {"O", "<label>", "<figDesc>"}

FigureEntityBlocks ==
    UNION {[1..n -> FigureTags \X EntityTexts] : n \in 0..MaxEntityBlocks}

\* iter_semantic_content_for_entity_blocks(fg_input) was called: a
\* generator that has not run yet
FigureInit ==
    /\ fg_input \in FigureEntityBlocks
    /\ fg_consumed = 0
    /\ fg_out = <<>>
    /\ fg_state = "created"
    /\ LayoutIdle
    /\ PipelineIdle("fg")

\* the generator is resumed: list(entity_tokens) takes every pair from
\* the input, the loop adds them to the figure, then the figure is yielded
FigureYield ==
    /\ fg_state = "created"
    /\ FigureOfEntityBlocks(None, fg_input) # None
    /\ fg_consumed' = Len(fg_input)
    /\ fg_out' = Append(fg_out, FigureOfEntityBlocks(None, fg_input)[1])
    /\ fg_state' = "yielded"
    /\ UNCHANGED <<fg_input, layout_vars>>
    /\ PipelineUnchanged("fg")

\* the generator ends: after the figure, or at once if there is no block
FigureExhausted ==
    /\ \/ fg_state = "yielded"
       \/ fg_state = "created" /\ FigureOfEntityBlocks(None, fg_input) = None
    /\ fg_state' = "exhausted"
    /\ fg_consumed' = Len(fg_input)
    /\ UNCHANGED <<fg_input, fg_out, layout_vars>>
    /\ PipelineUnchanged("fg")

FigureNext ==
    \/ FigureYield
    \/ FigureExhausted

SpecFigure == FigureInit /\ [][FigureNext]_vars

\* ------------------------------------------------------------- claim C17
\* the texts of the 'O' blocks of the input, in order
FigureOtherTexts ==
    LET others == SelectSeq(fg_input, LAMBDA entity : entity[1] = "O")
    IN  [i \in 1..Len(others) |-> others[i][2]]

\* the texts of the notes emitted as entities of their own, in order
FigureStandaloneNoteTexts ==
    LET notes == SelectSeq(fg_out, LAMBDA content : content.type = "SemanticNote")
    IN  [i \in 1..Len(notes) |-> notes[i].text]

\* C17 (figure extractor): every 'O' block is emitted as a standalone note
\* entity and is not part of the aggregate, so a leading 'O' block yields
\* a note entity followed by the figure.
C17_OtherIsStandaloneNote ==
    fg_state = "exhausted" =>
        /\ FigureStandaloneNoteTexts = FigureOtherTexts
        /\ \A i \in 1..Len(fg_out) :
              fg_out[i].type = "SemanticFigure" =>
                  ~has_type(fg_out[i], "SemanticNote")
        /\ (Len(fg_input) >= 2 /\ fg_input[1][1] = "O" /\ fg_input[2][1] # "O") =>
              /\ Len(fg_out) >= 2
              /\ fg_out[1].type = "SemanticNote"
              /\ fg_out[2].type = "SemanticFigure"

\* ------------------------------------------------ TEI children of a block
\* required_styles of a token: 'bold' and 'italic', in this order
get_required_styles(layout_token) ==
    (IF layout_token.font.is_bold = Some(TRUE) THEN <<"bold">> ELSE <<>>)
    \o (IF layout_token.font.is_italics = Some(TRUE) THEN <<"italic">> ELSE <<>>)

\* an item yielded to extend_element: a str, a <hi rend=...> element with
\* one child (a str or another hi), or the dict of the coords attribute
TeiStr(text) == [kind |-> "str", rend |-> "", text |-> text, child |-> <<>>]

TeiHi(rend, child) == [kind |-> "hi", rend |-> rend, text |-> <<>>, child |-> <<child>>]

TeiCoordsAttribute == [kind |-> "dict", rend |-> "", text |-> <<>>, child |-> <<>>]

\* one <hi> per token: the pending text is never merged with the next token
flush_every_token(required_styles, pending_styles, pending_text) ==
    pending_text # <<>>

\* lines 153-154: the pending text is flushed when the styles change
flush_on_style_change(required_styles, pending_styles, pending_text) ==
    required_styles # pending_styles

\* the loop over reversed(styles): the first style is the outermost element
RECURSIVE get_element_for_styles(_, _)
get_element_for_styles(styles, text) ==
    IF styles = <<>> THEN TeiStr(text)
    ELSE TeiHi(Head(styles), get_element_for_styles(Tail(styles), text))

\* the local variables of iter_layout_block_tei_children and what one
\* iteration of the loop over the tokens does to them and yields
TeiChildrenStart ==
    [pending_styles |-> <<>>, pending_text |-> <<>>, pending_whitespace |-> <<>>,
     yielded |-> <<>>]

\* an iteration that drops the pending whitespace when the styles change
TeiChildrenStepDroppingWhitespace(s, token) ==
    LET required_styles == get_required_styles(token)
        changed == required_styles # s.pending_styles
        flushed_text == changed /\ s.pending_text # <<>>
    IN  [pending_styles |-> required_styles,
         pending_text |-> IF changed THEN token.text
                          ELSE s.pending_text \o s.pending_whitespace \o token.text,
         pending_whitespace |-> token.whitespace,
         yielded |-> IF flushed_text
                     THEN <<get_element_for_styles(s.pending_styles, s.pending_text)>>
                     ELSE <<>>]

TeiChildrenStep(s, token) ==
    LET required_styles == get_required_styles(token)
        changed == flush_on_style_change(required_styles, s.pending_styles,
                                         s.pending_text)
        flushed_text == changed /\ s.pending_text # <<>>
        flushed_whitespace == changed /\ s.pending_whitespace # <<>>
        pending_text_1 == IF flushed_text THEN <<>> ELSE s.pending_text
        pending_whitespace_1 == IF flushed_whitespace THEN <<>> ELSE s.pending_whitespace
    IN  [pending_styles |-> IF changed THEN required_styles ELSE s.pending_styles,
         pending_text |-> pending_text_1 \o pending_whitespace_1 \o token.text,
         pending_whitespace |-> token.whitespace,
         yielded |->
             (IF flushed_text
              THEN <<get_element_for_styles(s.pending_styles, s.pending_text)>>
              ELSE <<>>)
             \o (IF flushed_whitespace THEN <<TeiStr(s.pending_whitespace)>> ELSE <<>>)]

\* the tokens of the lines of the block, in the order of the two loops
LayoutBlockTokens(layout_block) ==
    Concat([l \in 1..Len(layout_block.lines) |-> layout_block.lines[l].tokens])

\* --------------------------------------- TEI children of a block: actions
TeiFontPlain == LayoutFont("F1", Some("family1"), Some(10), Some(FALSE), Some(FALSE), None, None)

TeiFontBold == LayoutFont("F2", Some("family1"), Some(10), Some(TRUE), Some(FALSE), None, None)

TeiFontBoldItalic == LayoutFont("F3", Some("family1"), Some(10), Some(TRUE), Some(TRUE), None, None)

TeiTokens ==
    {LayoutToken(text, font, whitespace, None) :
        text \in {<<"a">>, <<>>}, font \in {TeiFontPlain, TeiFontBold},
        whitespace \in {<<" ">>, <<>>}}
    \cup {LayoutToken(<<"a">>, TeiFontBoldItalic, <<" ">>, None)}

\* the first token is a line of its own, the other tokens are a second line
TeiBlockOfTokens(tokens) ==
    IF tokens = <<>> THEN LayoutBlock(<<>>)
    ELSE IF Len(tokens) = 1 THEN LayoutBlock(<<LayoutLine(tokens)>>)
    ELSE LayoutBlock(<<LayoutLine(<<Head(tokens)>>), LayoutLine(Tail(tokens))>>)

TeiBlocks ==
    {TeiBlockOfTokens(tokens) :
        tokens \in UNION {[1..n -> TeiTokens] : n \in 0..MaxTeiTokens}}

\* iter_layout_block_tei_children(ts_block, ts_enable_coordinates) was called
TeiChildrenInit ==
    /\ ts_block \in TeiBlocks
    /\ ts_enable_coordinates \in BOOLEAN
    /\ ts_pc = "coords"
    /\ ts_pos = 1
    /\ ts_locals = TeiChildrenStart
    /\ ts_items = <<>>
    /\ LayoutIdle
    /\ PipelineIdle("ts")

\* lines 142-147: the coords attribute comes first, if enabled
TeiChildrenCoords ==
    /\ ts_pc = "coords"
    /\ ts_pc' = "tokens"
    /\ ts_items' = IF ts_enable_coordinates THEN <<TeiCoordsAttribute>> ELSE <<>>
    /\ UNCHANGED <<ts_block, ts_enable_coordinates, ts_pos, ts_locals, layout_vars>>
    /\ PipelineUnchanged("ts")

\* one iteration of the loop over the tokens (lines 149-165)
TeiChildrenToken ==
    /\ ts_pc = "tokens"
    /\ ts_pos <= Len(LayoutBlockTokens(ts_block))
    /\ ts_locals' = [TeiChildrenStep(ts_locals, LayoutBlockTokens(ts_block)[ts_pos])
                        EXCEPT !.yielded = <<>>]
    /\ ts_items' = ts_items
           \o TeiChildrenStep(ts_locals, LayoutBlockTokens(ts_block)[ts_pos]).yielded
    /\ ts_pos' = ts_pos + 1
    /\ UNCHANGED <<ts_block, ts_enable_coordinates, ts_pc, layout_vars>>
    /\ PipelineUnchanged("ts")

\* after the loop: the pending text is yielded (lines 166-170)
TeiChildrenEnd ==
    /\ ts_pc = "tokens"
    /\ ts_pos > Len(LayoutBlockTokens(ts_block))
    /\ ts_pc' = "done"
    /\ ts_items' = ts_items
           \o (IF ts_locals.pending_text # <<>>
               THEN <<get_element_for_styles(ts_locals.pending_styles,
                                             ts_locals.pending_text)>>
               ELSE <<>>)
    /\ UNCHANGED <<ts_block, ts_enable_coordinates, ts_pos, ts_locals, layout_vars>>
    /\ PipelineUnchanged("ts")

TeiChildrenNext ==
    \/ TeiChildrenCoords
    \/ TeiChildrenToken
    \/ TeiChildrenEnd

SpecTeiChildren == TeiChildrenInit /\ [][TeiChildrenNext]_vars

\* ------------------------------------------------------------- claim C18
\* the text inside an item and its style list, outermost first
RECURSIVE TeiItemText(_)
TeiItemText(item) ==
    IF item.kind = "hi" THEN TeiItemText(item.child[1]) ELSE item.text

RECURSIVE TeiItemStyles(_)
TeiItemStyles(item) ==
    IF item.kind = "hi" THEN <<item.rend>> \o TeiItemStyles(item.child[1]) ELSE <<>>

\* the maximal runs of consecutive tokens with the same required styles
RECURSIVE StyleRuns(_)
StyleRuns(tokens) ==
    IF tokens = <<>> THEN <<>>
    ELSE LET rest == StyleRuns(Tail(tokens))
         IN  IF rest # <<>>
                /\ get_required_styles(Head(rest)[1]) = get_required_styles(Head(tokens))
             THEN <<<<Head(tokens)>> \o Head(rest)>> \o Tail(rest)
             ELSE <<<<Head(tokens)>>>> \o rest

\* the texts of the tokens of a run with the whitespace between them
RECURSIVE RunText(_)
RunText(run) ==
    IF Len(run) = 1 THEN run[1].text
    ELSE run[1].text \o run[1].whitespace \o RunText(Tail(run))

\* what the claim expects for the runs from the k-th on: for each run its
\* styles and text, and between two runs the whitespace of the last token
\* of the earlier one, unstyled, if it is not empty
RECURSIVE ExpectedRunItems(_, _)
ExpectedRunItems(runs, k) ==
    IF k > Len(runs) THEN <<>>
    ELSE << <<get_required_styles(runs[k][1]), RunText(runs[k])>> >>
         \o (IF k < Len(runs) /\ runs[k][Len(runs[k])].whitespace # <<>>
             THEN << <<<<>>, runs[k][Len(runs[k])].whitespace>> >>
             ELSE <<>>)
         \o ExpectedRunItems(runs, k + 1)

TeiChildItems == SelectSeq(ts_items, LAMBDA item : item.kind # "dict")

TeiTextBearingItems ==
    SelectSeq(TeiChildItems, LAMBDA item : ~StripIsEmpty(TeiItemText(item)))

TeiAllTokensHaveText ==
    \A i \in 1..Len(LayoutBlockTokens(ts_block)) :
        LayoutBlockTokens(ts_block)[i].text # <<>>

\* C18: for a block whose tokens all have non-empty text, the items
\* emitted are one styled element or plain text per maximal run of tokens
\* with the same required styles, so consecutive text-bearing items differ
\* in their style list, and the whitespace between two runs is emitted as
\* plain text between their items.
C18_StyleRunMerging ==
    (ts_pc = "done" /\ TeiAllTokensHaveText) =>
        /\ Len(TeiTextBearingItems) = Len(StyleRuns(LayoutBlockTokens(ts_block)))
        /\ \A k \in 1..(Len(TeiTextBearingItems) - 1) :
              TeiItemStyles(TeiTextBearingItems[k])
                  # TeiItemStyles(TeiTextBearingItems[k + 1])
        /\ [k \in 1..Len(TeiChildItems) |->
               <<TeiItemStyles(TeiChildItems[k]), TeiItemText(TeiChildItems[k])>>]
           = ExpectedRunItems(StyleRuns(LayoutBlockTokens(ts_block)), 1)

\* two bold tokens then a plain one: a bold element of both, the
\* whitespace, and the plain text
C18_Witness ==
    /\ ts_pc = "done"
    /\ TeiAllTokensHaveText
    /\ Len(LayoutBlockTokens(ts_block)) = 3
    /\ Len(StyleRuns(LayoutBlockTokens(ts_block))) = 2
    /\ Len(StyleRuns(LayoutBlockTokens(ts_block))[1]) = 2
    /\ Len(TeiChildItems) = 3
    /\ TeiChildItems[1].kind = "hi"
    /\ TeiChildItems[2] = TeiStr(<<" ">>)
    /\ TeiChildItems[3].kind = "str"

\* -------------------------------------------------------------- ALTO parser
\* an element: its tag, its attributes (None when absent) and its children
AltoAttributes(id, fontsize, fontstyle, content, stylerefs, hpos) ==
    [ID |-> id, FONTFAMILY |-> None, FONTSIZE |-> fontsize, FONTSTYLE |-> fontstyle,
     CONTENT |-> content, STYLEREFS |-> stylerefs,
     HPOS |-> hpos, VPOS |-> None, WIDTH |-> None, HEIGHT |-> None]

NoAttributes == AltoAttributes(None, None, None, None, None, None)

AltoElement(tag, attrib, children) ==
    [tag |-> tag, attrib |-> attrib, children |-> children]

\* xpath './alto:<tag>': the children with the tag, in document order
AltoChildren(parent, tag) ==
    SelectSeq(parent.children, LAMBDA child : child.tag = tag)

\* xpath './/alto:<tag>': the descendants with the tag, in document order
RECURSIVE AltoDescendants(_, _)
AltoDescendants(parent, tag) ==
    Concat([i \in 1..Len(parent.children) |->
        (IF parent.children[i].tag = tag THEN <<parent.children[i]>> ELSE <<>>)
        \o AltoDescendants(parent.children[i], tag)])

\* REPLACEMENT_CHARACTER_BY_CHARACTER_MAP, for the fi ligature and the
\* asterisk operator
normalize_text(text) ==
    Concat([i \in 1..Len(text) |->
        IF text[i] = "LIGATURE_FI" THEN <<"f", "i">>
        ELSE IF text[i] = "ASTERISK_OPERATOR" THEN <<"*">>
        ELSE <<text[i]>>])

\* float(attrib.get(name, 0))
float_or_zero(value) == IF value = None THEN Frac(0, 1) ELSE value[1]

LayoutPageCoordinates(x, y, width, height, page_number) ==
    [x |-> x, y |-> y, width |-> width, height |-> height,
     page_number |-> page_number]

\* dict.get(key, default) on the dict built from the fonts in order: of
\* two fonts with the same font_id the later one is kept
font_by_id_map_get(fonts, key, default) ==
    IF \A i \in 1..Len(fonts) : fonts[i].font_id # key THEN default
    ELSE fonts[CHOOSE i \in 1..Len(fonts) :
                  /\ fonts[i].font_id = key
                  /\ \A j \in (i + 1)..Len(fonts) : fonts[j].font_id # key]

parse_token(token_node, page_index, fonts) ==
    LayoutToken(
        normalize_text(IF token_node.attrib.CONTENT = None THEN <<>>
                       ELSE token_node.attrib.CONTENT[1]),
        font_by_id_map_get(fonts, token_node.attrib.STYLEREFS, EMPTY_LAYOUT_FONT),
        <<" ">>,
        Some(LayoutPageCoordinates(
            float_or_zero(token_node.attrib.HPOS),
            float_or_zero(token_node.attrib.VPOS),
            float_or_zero(token_node.attrib.WIDTH),
            float_or_zero(token_node.attrib.HEIGHT),
            1 + page_index)))

parse_line(line_node, page_index, fonts) ==
    LET token_nodes == AltoDescendants(line_node, "String")
    IN  LayoutLine([i \in 1..Len(token_nodes) |->
            parse_token(token_nodes[i], page_index, fonts)])

\* a block with a line for every TextLine, with or without a String
parse_block_of_all_lines(block_node, page_index, fonts) ==
    LET line_nodes == AltoDescendants(block_node, "TextLine")
    IN  LayoutBlock([i \in 1..Len(line_nodes) |->
            parse_line(line_nodes[i], page_index, fonts)])

\* xpath './/alto:TextLine[alto:String]': the lines with a String child
parse_block(block_node, page_index, fonts) ==
    LET line_nodes == SelectSeq(AltoDescendants(block_node, "TextLine"),
            LAMBDA line_node : AltoChildren(line_node, "String") # <<>>)
    IN  LayoutBlock([i \in 1..Len(line_nodes) |->
            parse_line(line_nodes[i], page_index, fonts)])

parse_page(page_node, page_index, fonts) ==
    LET block_nodes == AltoDescendants(page_node, "TextBlock")
    IN  LayoutPage([i \in 1..Len(block_nodes) |->
            parse_block(block_nodes[i], page_index, fonts)])

\* FONTSTYLE is a text; a word of several symbols ("bold", "italics" one
\* after the other without a space) is none of the four style words.
\* font_id is attrib.get('ID'): None when the TextStyle has no ID
parse_font(font_node) ==
    LET font_styles == split_on_space(IF font_node.attrib.FONTSTYLE = None THEN <<>>
                                      ELSE font_node.attrib.FONTSTYLE[1])
        has(word) == \E i \in 1..Len(font_styles) : font_styles[i] = <<word>>
    IN  LayoutFont(font_node.attrib.ID, font_node.attrib.FONTFAMILY,
                   font_node.attrib.FONTSIZE,
                   Some(has("bold")), Some(has("italics")),
                   Some(has("subscript")), Some(has("superscript")))

\* the fonts in document order; font_by_id_map_get reads them as the dict
parse_font_by_id_map(root) ==
    LET font_nodes == Concat([i \in 1..Len(AltoChildren(root, "Styles")) |->
                          AltoChildren(AltoChildren(root, "Styles")[i], "TextStyle")])
    IN  [i \in 1..Len(font_nodes) |-> parse_font(font_nodes[i])]

\* float(font_node.attrib.get('FONTSIZE')) raises for a TextStyle without
\* FONTSIZE
parse_font_raises(root) ==
    \E i \in 1..Len(parse_font_by_id_map(root)) :
        parse_font_by_id_map(root)[i].font_size = None

parse_root(root) ==
    LET fonts == parse_font_by_id_map(root)
        page_nodes == AltoDescendants(root, "Page")
    IN  LayoutDocument([i \in 1..Len(page_nodes) |->
            parse_page(page_nodes[i], i - 1, fonts)])

\* ----------------------------------------------------- ALTO parser: actions
AltoTextStyle(id, fontstyle, fontsize) ==
    AltoElement("TextStyle", AltoAttributes(id, fontsize, fontstyle, None, None, None), <<>>)

\* the Styles of a document: no font; a font without FONTSTYLE; two fonts
\* with two style words each; a font whose FONTSTYLE is the one word
\* 'bolditalics'; a TextStyle without ID; a TextStyle without FONTSIZE
AltoStyleTables ==
    { <<>>,
      <<AltoTextStyle(Some("font1"), None, Some(11))>>,
      <<AltoTextStyle(Some("font1"), Some(<<"bold", " ", "italics">>), Some(11)),
        AltoTextStyle(Some("font2"), Some(<<"subscript", " ", "superscript">>), Some(22))>>,
      <<AltoTextStyle(Some("font1"), Some(<<"bold", "italics">>), Some(11))>>,
      <<AltoTextStyle(None, Some(<<"bold">>), Some(11))>>,
      <<AltoTextStyle(Some("font1"), Some(<<"bold">>), None)>> }

AltoString(content, stylerefs) ==
    AltoElement("String",
                AltoAttributes(None, None, None, Some(content), stylerefs, Some(Frac(1, 1))),
                <<>>)

AltoStrings ==
    {AltoString(<<"a">>, None),
     AltoString(<<"b">>, Some("font1")),
     AltoString(<<"LIGATURE_FI">>, Some("font2"))}

\* a TextLine starts with an SP element, the String elements follow
AltoTextLines ==
    {AltoElement("TextLine", NoAttributes,
                 <<AltoElement("SP", NoAttributes, <<>>)>> \o strings) :
        strings \in UNION {[1..n -> AltoStrings] : n \in 0..MaxAltoStrings}}

\* what follows the first line of a block: nothing, a line without a
\* String, a line of one String
AltoLaterLines ==
    {<<>>,
     <<AltoElement("TextLine", NoAttributes, <<AltoElement("SP", NoAttributes, <<>>)>>)>>,
     <<AltoElement("TextLine", NoAttributes, <<AltoString(<<"a">>, Some("font2"))>>)>>}

AltoTextBlocks ==
    {AltoElement("TextBlock", NoAttributes, <<>>)}
    \cup {AltoElement("TextBlock", NoAttributes, <<line>> \o later) :
              line \in AltoTextLines, later \in AltoLaterLines}

AltoPage(blocks) ==
    AltoElement("Page", NoAttributes, <<AltoElement("PrintSpace", NoAttributes, blocks)>>)

\* the second page: a block of one line, alone or after a block without
\* lines inside a ComposedBlock
AltoSecondPages ==
    {AltoPage(<<AltoElement("TextBlock", NoAttributes,
                   <<AltoElement("TextLine", NoAttributes,
                                 <<AltoString(<<"b">>, Some("font1"))>>)>>)>>),
     AltoPage(<<AltoElement("ComposedBlock", NoAttributes,
                   <<AltoElement("TextBlock", NoAttributes, <<>>)>>),
                AltoElement("TextBlock", NoAttributes,
                   <<AltoElement("TextLine", NoAttributes,
                                 <<AltoString(<<"a">>, None)>>)>>)>>)}

AltoLayouts ==
    {<<AltoPage(<<block>>)>> : block \in AltoTextBlocks}
    \cup {<<AltoPage(<<block>>), page>> : block \in AltoTextBlocks, page \in AltoSecondPages}

AltoRoots ==
    {AltoElement("alto", NoAttributes,
        <<AltoElement("Styles", NoAttributes, styles),
          AltoElement("Layout", NoAttributes, pages)>>) :
        styles \in AltoStyleTables, pages \in AltoLayouts}

\* parse_alto_root(al_root) is about to be called
AltoInit ==
    /\ al_root \in AltoRoots
    /\ al_status = "not called"
    /\ al_document = LayoutDocument(<<>>)
    /\ LayoutIdle
    /\ PipelineIdle("al")

\* parse_alto_root returns the LayoutDocument
ParseAltoRoot ==
    /\ al_status = "not called"
    /\ ~parse_font_raises(al_root)
    /\ al_status' = "returned"
    /\ al_document' = parse_root(al_root)
    /\ UNCHANGED <<al_root, layout_vars>>
    /\ PipelineUnchanged("al")

\* parse_alto_root raises in parse_font: a TextStyle has no FONTSIZE
ParseAltoRootTypeError ==
    /\ al_status = "not called"
    /\ parse_font_raises(al_root)
    /\ al_status' = "TypeError"
    /\ UNCHANGED <<al_root, al_document, layout_vars>>
    /\ PipelineUnchanged("al")

AltoNext ==
    \/ ParseAltoRoot
    \/ ParseAltoRootTypeError

SpecAlto == AltoInit /\ [][AltoNext]_vars

\* ------------------------------------------------------ ALTO parser: claims
AltoPageNodes == AltoDescendants(al_root, "Page")

AltoLinesWithString(block_node) ==
    SelectSeq(AltoDescendants(block_node, "TextLine"),
              LAMBDA line_node : \E i \in 1..Len(line_node.children) :
                                     line_node.children[i].tag = "String")

\* the tokens of the returned document, in its order
AltoDocumentTokens ==
    Concat([k \in 1..Len(al_document.pages) |->
        Concat([j \in 1..Len(al_document.pages[k].blocks) |->
            LayoutBlockTokens(al_document.pages[k].blocks[j])])])

\* the k-th page of the result against the k-th Page node
AltoPageMatches(k) ==
    LET page == al_document.pages[k]
        block_nodes == AltoDescendants(AltoPageNodes[k], "TextBlock")
    IN  /\ Len(page.blocks) = Len(block_nodes)
        /\ \A j \in 1..Len(block_nodes) :
            LET lines == page.blocks[j].lines
                line_nodes == AltoLinesWithString(block_nodes[j])
            IN  /\ Len(lines) = Len(line_nodes)
                /\ \A i \in 1..Len(line_nodes) :
                    LET tokens == lines[i].tokens
                        token_nodes == AltoDescendants(line_nodes[i], "String")
                    IN  /\ Len(tokens) = Len(token_nodes)
                        /\ \A t \in 1..Len(token_nodes) :
                            /\ tokens[t].text
                                 = normalize_text(token_nodes[t].attrib.CONTENT[1])
                            /\ tokens[t].coordinates[1].page_number = k

\* C19: parse_alto_root returns one page per Page node, in each page one
\* block per TextBlock node, in each block one line per TextLine node that
\* has a String, in each line one token per String node, all in document
\* order (the tokens carry the normalised CONTENT of their String); no
\* String of the document is left out, and every token of the k-th page
\* has page_number k, counted from 1.
C19_StructureAndOrder ==
    al_status = "returned" =>
        /\ Len(al_document.pages) = Len(AltoPageNodes)
        /\ \A k \in 1..Len(AltoPageNodes) : AltoPageMatches(k)
        /\ Len(AltoDocumentTokens) = Len(AltoDescendants(al_root, "String"))

\* a document of two pages was parsed; a block of the first page has a
\* TextLine without a String before a line with a String, and a line with
\* two Strings of different content; the tokens of the second page have
\* page_number 2
C19_Witness ==
    /\ al_status = "returned"
    /\ Len(al_document.pages) = 2
    /\ \E j \in 1..Len(AltoDescendants(AltoPageNodes[1], "TextBlock")) :
        LET block_node == AltoDescendants(AltoPageNodes[1], "TextBlock")[j]
            line_nodes == AltoDescendants(block_node, "TextLine")
        IN  /\ Len(line_nodes) = 2
            /\ Len(AltoLinesWithString(block_node)) = 1
            /\ Len(al_document.pages[1].blocks[j].lines) = 1
            /\ AltoLinesWithString(block_node)[1] = line_nodes[2]
    /\ \E l \in 1..Len(al_document.pages[2].blocks) :
        /\ al_document.pages[2].blocks[l].lines # <<>>
        /\ al_document.pages[2].blocks[l].lines[1].tokens[1].coordinates[1].page_number = 2

\* FONTSTYLE has the word: it stands between spaces or the ends of the text
AltoHasStyleWord(font_node, word) ==
    /\ font_node.attrib.FONTSTYLE # None
    /\ LET font_style == font_node.attrib.FONTSTYLE[1]
       IN  \E i \in 1..Len(font_style) :
               /\ font_style[i] = word
               /\ i = 1 \/ font_style[i - 1] = " "
               /\ i = Len(font_style) \/ font_style[i + 1] = " "

AltoFontNodes ==
    Concat([i \in 1..Len(AltoChildren(al_root, "Styles")) |->
        AltoChildren(AltoChildren(al_root, "Styles")[i], "TextStyle")])

AltoIsFontOf(font, font_node) ==
    /\ font.font_id = font_node.attrib.ID
    /\ font.is_bold = Some(AltoHasStyleWord(font_node, "bold"))
    /\ font.is_italics = Some(AltoHasStyleWord(font_node, "italics"))
    /\ font.is_subscript = Some(AltoHasStyleWord(font_node, "subscript"))
    /\ font.is_superscript = Some(AltoHasStyleWord(font_node, "superscript"))

AltoNamesTextStyle(token_node) ==
    /\ token_node.attrib.STYLEREFS # None
    /\ \E i \in 1..Len(AltoFontNodes) :
           AltoFontNodes[i].attrib.ID = token_node.attrib.STYLEREFS

\* C20: parse_alto_root raises for no reference (only for a TextStyle
\* without FONTSIZE); in the returned document the token of a String whose
\* STYLEREFS names a TextStyle id has that font, with each of the four
\* flags true exactly when its word is in FONTSTYLE, and the token of a
\* String whose STYLEREFS is absent or names no TextStyle has EMPTY_FONT.
C20_FontResolution ==
    /\ al_status = "TypeError" =>
           \E i \in 1..Len(AltoFontNodes) : AltoFontNodes[i].attrib.FONTSIZE = None
    /\ al_status = "returned" =>
        \A n \in 1..Len(AltoDocumentTokens) :
            LET token_node == AltoDescendants(al_root, "String")[n]
                font == AltoDocumentTokens[n].font
            IN  IF AltoNamesTextStyle(token_node)
                THEN \E i \in 1..Len(AltoFontNodes) :
                         /\ AltoFontNodes[i].attrib.ID = token_node.attrib.STYLEREFS
                         /\ AltoIsFontOf(font, AltoFontNodes[i])
                ELSE font = EMPTY_LAYOUT_FONT

\* the same with the String without STYLEREFS left out: the token of a
\* String with STYLEREFS has the font of the TextStyle of that id, or
\* EMPTY_FONT when there is none
C20_FontResolutionOfGivenStyleRefs ==
    al_status = "returned" =>
        \A n \in 1..Len(AltoDocumentTokens) :
            LET token_node == AltoDescendants(al_root, "String")[n]
                font == AltoDocumentTokens[n].font
            IN  token_node.attrib.STYLEREFS # None =>
                    IF AltoNamesTextStyle(token_node)
                    THEN \E i \in 1..Len(AltoFontNodes) :
                             /\ AltoFontNodes[i].attrib.ID = token_node.attrib.STYLEREFS
                             /\ AltoIsFontOf(font, AltoFontNodes[i])
                    ELSE font = EMPTY_LAYOUT_FONT

\* ------------------------------------------------------------- claim C24
\* both generators, each given a document of its own or none
SpecBlockStatus == (TokenGenInit \/ SegInit) /\ [][TokenGenNext \/ SegNext]_vars

\* the block of the k-th row of the per-token generator
TokenRowBlock(k) ==
    iter_all_blocks(tg_doc)[DocumentTokenFeatures(tg_doc)[k].layout_line[1] + 1]

\* the block of the k-th row of the segmentation generator
SegRowBlock(k) ==
    sg_doc.pages[sg_rows[k].layout_line[1] + 1].blocks[sg_rows[k].layout_line[2] + 1]

SegRowBlockStatus(k) == sg_rows[k].line_features[8]

\* C24 as stated: a row that is the start and the end of its block (the
\* only token of a single-token block, the only line of a single-line
\* block) has block status BLOCKEND in both generators.
C24_BlockEndWins ==
    /\ \A k \in 1..Len(tg_rows) :
          Len(LayoutBlockTokens(TokenRowBlock(k))) = 1 =>
              tg_rows[k].block_status = "BLOCKEND"
    /\ \A k \in 1..Len(sg_rows) :
          Len(SegRowBlock(k).lines) = 1 => SegRowBlockStatus(k) = <<"BLOCKEND">>

\* C24, amended: in the per-token features the only token of a
\* single-token block is BLOCKEND when its line is the last line of the
\* block (always so when the block has one line) and BLOCKIN when lines
\* without tokens follow it; in the segmentation features the only line of
\* a single-line block is BLOCKSTART: there the start wins.
C24_BlockStatusOfSingleRowBlock ==
    /\ \A k \in 1..Len(tg_rows) :
          Len(LayoutBlockTokens(TokenRowBlock(k))) = 1 =>
              tg_rows[k].block_status =
                  (IF DocumentTokenFeatures(tg_doc)[k].layout_line[2] + 1
                          = Len(TokenRowBlock(k).lines)
                   THEN "BLOCKEND" ELSE "BLOCKIN")
    /\ \A k \in 1..Len(sg_rows) :
          Len(SegRowBlock(k).lines) = 1 => SegRowBlockStatus(k) = <<"BLOCKSTART">>

\* the segmentation generator has emitted the row of the only line of a
\* block after the rows of a block of two lines
C24_Witness ==
    /\ Len(sg_rows) = 3
    /\ Len(SegRowBlock(3).lines) = 1
    /\ SegRowBlockStatus(3) = <<"BLOCKSTART">>
    /\ SegRowBlockStatus(2) = <<"BLOCKEND">>

\* ------------------------------------------------------------- claim C27
SegRowPageStatus(k) == sg_rows[k].line_features[9]

\* the rows emitted for the lines of the page with index p
SegRowsOfPage(p) == {k \in 1..Len(sg_rows) : sg_rows[k].layout_line[1] = p}

SegLineHasToken(line) == line.tokens # <<>>

\* every block of the page has a line with a token
SegPageBlocksHaveNonEmptyLine(p) ==
    \A b \in 1..Len(sg_doc.pages[p + 1].blocks) :
        \E l \in 1..Len(sg_doc.pages[p + 1].blocks[b].lines) :
            SegLineHasToken(sg_doc.pages[p + 1].blocks[b].lines[l])

\* every block of the page has a line and every line has a token
SegPageHasNoEmptyLine(p) ==
    \A b \in 1..Len(sg_doc.pages[p + 1].blocks) :
        /\ sg_doc.pages[p + 1].blocks[b].lines # <<>>
        /\ \A l \in 1..Len(sg_doc.pages[p + 1].blocks[b].lines) :
               SegLineHasToken(sg_doc.pages[p + 1].blocks[b].lines[l])

\* the generator has ended and no page before page p stopped it
SegPagePassed(p) ==
    /\ sg_status # "suspended"
    /\ \A q \in 0..(p - 1) : SegPageHasNoEmptyLine(q)

\* the statuses the claim gives to the rows of page p
SegPageStatusAsClaimed(p) ==
    LET blocks == sg_doc.pages[p + 1].blocks
    IN  /\ Cardinality({k \in SegRowsOfPage(p) : SegRowPageStatus(k) = <<"PAGESTART">>}) = 1
        /\ \A k \in SegRowsOfPage(p) :
              LET b == sg_rows[k].layout_line[2]
                  l == sg_rows[k].layout_line[3]
              IN  /\ SegRowPageStatus(k) = <<"PAGESTART">> <=> (b = 0 /\ l = 0)
                  /\ SegRowPageStatus(k) = <<"PAGEEND">> <=>
                         /\ b = Len(blocks) - 1
                         /\ l = Len(blocks[b + 1].lines) - 1
                         /\ Len(blocks[b + 1].lines) >= 2
                  /\ SegRowPageStatus(k) \in {<<"PAGESTART">>, <<"PAGEEND">>, <<"PAGEIN">>}

\* C27 as stated: for a page whose blocks all have at least one line with
\* a token, exactly one emitted row is PAGESTART, the row of the first
\* line of the first block; a row is PAGEEND exactly when it is the last
\* line of the last block and that block has two lines or more; every
\* other row is PAGEIN.
C27_PageStatusWithNonEmptyLine ==
    \A p \in 0..(Len(sg_doc.pages) - 1) :
        (SegPagePassed(p) /\ SegPageBlocksHaveNonEmptyLine(p)) =>
            SegPageStatusAsClaimed(p)

\* C27 without the token-less lines: for a page whose blocks all have a line and whose lines
\* all have a token, every line has its row and the statuses are as
\* stated; on any page, the rows emitted before a line without tokens
\* (or a block without lines) ends the generator with an exception have
\* these statuses too, so that a page whose first line has no token has
\* no PAGESTART row.
C27_PageStatus ==
    \A p \in 0..(Len(sg_doc.pages) - 1) :
        /\ \A k \in SegRowsOfPage(p) :
               LET b == sg_rows[k].layout_line[2]
                   l == sg_rows[k].layout_line[3]
                   blocks == sg_doc.pages[p + 1].blocks
               IN  SegRowPageStatus(k) =
                       (IF b = 0 /\ l = 0 THEN <<"PAGESTART">>
                        ELSE IF /\ b = Len(blocks) - 1
                                /\ l = Len(blocks[b + 1].lines) - 1
                                /\ Len(blocks[b + 1].lines) >= 2
                             THEN <<"PAGEEND">>
                        ELSE <<"PAGEIN">>)
        /\ (SegPagePassed(p) /\ SegPageHasNoEmptyLine(p)) =>
               /\ SegPageStatusAsClaimed(p)
               /\ Cardinality(SegRowsOfPage(p))
                      = SumLen([b \in 1..Len(sg_doc.pages[p + 1].blocks) |->
                                   sg_doc.pages[p + 1].blocks[b].lines])

\* ------------------------------------------------------------- claim C26
\* C26: the figure extractor yields nothing for an empty input and never
\* more than one content; what it yields for a non-empty input is one
\* SemanticFigure, yielded when every input pair has been consumed, whose
\* content holds one item per input pair, in input order, with the text of
\* the pair's block; once the generator has ended on a non-empty input the
\* figure has been yielded.
C26_FlushOnceAtEnd ==
    /\ Len(fg_out) <= 1
    /\ fg_input = <<>> => fg_out = <<>>
    /\ fg_out # <<>> =>
          /\ fg_consumed = Len(fg_input)
          /\ fg_out[1].type = "SemanticFigure"
          /\ Len(fg_out[1].content) = Len(fg_input)
          /\ \A i \in 1..Len(fg_input) :
                /\ fg_out[1].content[i].text = fg_input[i][2]
                /\ fg_out[1].content[i].type # "SemanticFigure"
    /\ (fg_state = "exhausted" /\ fg_input # <<>>) => Len(fg_out) = 1

\* the generator has ended after yielding a figure of three entity blocks
\* with different texts
C26_Witness ==
    /\ fg_state = "exhausted"
    /\ Len(fg_input) = 3
    /\ fg_input[1][2] # fg_input[2][2]
    /\ Len(fg_out) = 1
    /\ Len(fg_out[1].content) = 3

\* ------------------------------------------------------------- claim C30
\* join_layout_tokens: every text followed by its whitespace, the
\* whitespace of the last token left out
join_layout_tokens(layout_tokens) ==
    Concat([index \in 1..Len(layout_tokens) |->
        IF index - 1 < Len(layout_tokens) - 1
        THEN layout_tokens[index].text \o layout_tokens[index].whitespace
        ELSE layout_tokens[index].text])

\* the text content of the items emitted so far, the coords attribute
\* left out, joined in order
TeiEmittedText ==
    Concat([k \in 1..Len(TeiChildItems) |-> TeiItemText(TeiChildItems[k])])

\* C30: when iter_layout_block_tei_children has ended, the text content of
\* its items, joined in order, is join_layout_tokens of the tokens of all
\* lines of the block; while it runs, the text emitted so far followed by
\* the pending text is join_layout_tokens of the tokens consumed so far.
C30_NoTextLost ==
    /\ ts_pc = "done" => TeiEmittedText = join_layout_tokens(LayoutBlockTokens(ts_block))
    /\ ts_pc = "tokens" =>
          TeiEmittedText \o ts_locals.pending_text
              = join_layout_tokens(SubSeq(LayoutBlockTokens(ts_block), 1, ts_pos - 1))

\* a block of three tokens in two styles was serialised: a token with an
\* empty text and a whitespace stands between two tokens with a text
C30_Witness ==
    /\ ts_pc = "done"
    /\ Len(LayoutBlockTokens(ts_block)) = 3
    /\ LayoutBlockTokens(ts_block)[1].text # <<>>
    /\ LayoutBlockTokens(ts_block)[2].text = <<>>
    /\ LayoutBlockTokens(ts_block)[2].whitespace # <<>>
    /\ LayoutBlockTokens(ts_block)[3].text # <<>>
    /\ get_required_styles(LayoutBlockTokens(ts_block)[1])
           # get_required_styles(LayoutBlockTokens(ts_block)[2])
    /\ Len(TeiChildItems) >= 2

\* ------------------------------------------------ relative font size feature
RECURSIVE SeqSum(_)
SeqSum(numbers) ==
    IF numbers = <<>> THEN 0 ELSE Head(numbers) + SeqSum(Tail(numbers))

\* the list font_sizes of __init__: the font sizes that are truthy, that
\* is neither None nor 0
TruthyFontSizes(layout_tokens) ==
    LET truthy == SelectSeq(layout_tokens,
            LAMBDA layout_token : layout_token.font.font_size \notin {None, Some(0)})
    IN  [i \in 1..Len(truthy) |-> truthy[i].font.font_size[1]]

\* RelativeFontSizeFeature(layout_tokens): the three fields set by
\* __init__, 0.0 each when no font size is truthy; the mean is a fraction
RelativeFontSizeFeature(layout_tokens) ==
    LET font_sizes == TruthyFontSizes(layout_tokens)
        values == {font_sizes[i] : i \in 1..Len(font_sizes)}
    IN  [largest_font_size |->
             IF font_sizes # <<>>
             THEN CHOOSE n \in values : \A m \in values : m <= n ELSE 0,
         smallest_font_size |->
             IF font_sizes # <<>>
             THEN CHOOSE n \in values : \A m \in values : n <= m ELSE 0,
         mean_font_size |->
             IF font_sizes # <<>>
             THEN Frac(SeqSum(font_sizes), Len(font_sizes)) ELSE Frac(0, 1)]

\* font_size == self.largest_font_size: None equals no number, 0 equals 0.0
is_largest_font_size(self, layout_token) ==
    layout_token.font.font_size = Some(self.largest_font_size)

is_smallest_font_size(self, layout_token) ==
    layout_token.font.font_size = Some(self.smallest_font_size)

is_larger_than_average_font_size(self, layout_token) ==
    IF layout_token.font.font_size \in {None, Some(0)} THEN FALSE
    ELSE FracGreater(Frac(layout_token.font.font_size[1], 1), self.mean_font_size)

\* ------------------------------------- relative font size feature: actions
FontSizeToken(font_size) ==
    LayoutToken(<<"a">>, LayoutFont("F1", Some("family1"), font_size, None, None, None, None),
                <<" ">>, None)

FontSizeTokens ==
    {FontSizeToken(None)} \cup {FontSizeToken(Some(n)) : n \in 0..MaxFontSize}

\* the tokens of a document, as iter_all_tokens gives them
FontSizeInit ==
    /\ fs_tokens \in UNION {[1..n -> FontSizeTokens] : n \in 0..MaxFontSizeTokens}
    /\ fs_called = FALSE
    /\ fs_feature = RelativeFontSizeFeature(<<>>)
    /\ fs_flags = <<>>
    /\ LayoutIdle
    /\ PipelineIdle("fs")

\* the feature is built from the tokens of the document and its three
\* methods are called for each token
ComputeRelativeFontSize ==
    /\ ~fs_called
    /\ fs_called' = TRUE
    /\ fs_feature' = RelativeFontSizeFeature(fs_tokens)
    /\ fs_flags' = [i \in 1..Len(fs_tokens) |->
           [is_largest_font_size |->
                is_largest_font_size(RelativeFontSizeFeature(fs_tokens), fs_tokens[i]),
            is_smallest_font_size |->
                is_smallest_font_size(RelativeFontSizeFeature(fs_tokens), fs_tokens[i]),
            is_larger_than_average_font_size |->
                is_larger_than_average_font_size(RelativeFontSizeFeature(fs_tokens),
                                                 fs_tokens[i])]]
    /\ UNCHANGED <<fs_tokens, layout_vars>>
    /\ PipelineUnchanged("fs")

FontSizeNext == ComputeRelativeFontSize

SpecFontSize == FontSizeInit /\ [][FontSizeNext]_vars

\* ------------------------------------------------------------- claim C23
\* a font size is known when it is neither None nor 0
FontSizeKnown(i) == fs_tokens[i].font.font_size \notin {None, Some(0)}

KnownFontSizes == {fs_tokens[i].font.font_size[1] : i \in {j \in 1..Len(fs_tokens) : FontSizeKnown(j)}}

\* the sum of the known sizes of the tokens from the i-th on, and their number
RECURSIVE KnownFontSizeSum(_)
KnownFontSizeSum(i) ==
    IF i > Len(fs_tokens) THEN 0
    ELSE (IF FontSizeKnown(i) THEN fs_tokens[i].font.font_size[1] ELSE 0)
         + KnownFontSizeSum(i + 1)

KnownFontSizeCount == Cardinality({j \in 1..Len(fs_tokens) : FontSizeKnown(j)})

\* what the claim says about the i-th token
FontSizeRankingAsClaimed(i) ==
    LET size == fs_tokens[i].font.font_size
    IN  /\ fs_flags[i].is_largest_font_size <=>
               (FontSizeKnown(i) /\ \A n \in KnownFontSizes : n <= size[1])
        /\ fs_flags[i].is_smallest_font_size <=>
               (FontSizeKnown(i) /\ \A n \in KnownFontSizes : size[1] <= n)
        /\ fs_flags[i].is_larger_than_average_font_size <=>
               (FontSizeKnown(i)
                /\ size[1] * KnownFontSizeCount > KnownFontSizeSum(1))

\* C23: a token is reported as largest (smallest) exactly when its font
\* size is known and is the maximum (minimum) of the known font sizes of
\* the document, and as larger than average exactly when its size is known
\* and greater than their mean; a token whose size is None or 0 is never
\* reported as any of the three.
C23_RelativeFontSizeRanking ==
    fs_called => \A i \in 1..Len(fs_tokens) : FontSizeRankingAsClaimed(i)

\* C23 for the tokens it holds for: every token whose font size is not 0,
\* and every token of a document that has a known font size.
C23_RankingExceptZeroAmongUnknown ==
    fs_called =>
        \A i \in 1..Len(fs_tokens) :
            (fs_tokens[i].font.font_size # Some(0) \/ KnownFontSizes # {}) =>
                FontSizeRankingAsClaimed(i)

\* ------------------------------- per-token generator with context features
\* the local variables of one call of iter_model_data_for_layout_document
\* belong to that call: the scope of the locals of the call-th call
locals_scope_of_instance(call) == 1

locals_scope(call) == call

\* lines 396-400: what the body does before its loops
GeneratorProlog(layout_document) ==
    [bound |-> TRUE,
     relative_font_size_feature |->
         RelativeFontSizeFeature(Concat([b \in 1..Len(iter_all_blocks(layout_document)) |->
             LayoutBlockTokens(iter_all_blocks(layout_document)[b])])),
     line_indentation_status_feature |-> LineIndentationStatusFeature,
     previous_layout_token |-> None]

\* a previous token that is forgotten at the start of every line
previous_layout_token_within_line(locals, token_features) ==
    IF token_features.token_index = 0 THEN None ELSE locals.previous_layout_token

\* previous_layout_token as it is passed to the features (line 413): set
\* before the loops, assigned after every token
previous_layout_token_of(locals, token_features) ==
    locals.previous_layout_token

\* the tracker when the features of a token are built: on_new_line() was
\* called for every line begun since the token before (line 405)
TrackerAtToken(locals, token_features) ==
    IF token_features.token_index = 0
    THEN on_new_line(locals.line_indentation_status_feature)
    ELSE locals.line_indentation_status_feature

\* the row of a data generator that puts every context feature of the
\* token into its row, calling each get_ method once
ContextTokenModelData(locals, token_features) ==
    LET layout_token == token_features.layout_token
        previous_layout_token == previous_layout_token_of(locals, token_features)
        line_status == get_line_status(token_features.token_index,
                                       token_features.token_count)
        indented == get_is_indented_and_update(
            TrackerAtToken(locals, token_features), layout_token).is_indented
    IN  [layout_token |-> layout_token,
         line_status |-> line_status,
         block_status |-> get_block_status(token_features.line_index,
                                           token_features.line_count, line_status),
         alignment_status |-> IF indented THEN "LINEINDENT" ELSE "ALIGNEDLEFT",
         token_font_status |-> get_token_font_status(previous_layout_token, layout_token),
         token_font_size_feature |->
             get_token_font_size_feature(previous_layout_token, layout_token),
         is_largest_font_size |-> get_str_bool_feature_value(Some(
             is_largest_font_size(locals.relative_font_size_feature, layout_token))),
         is_smallest_font_size |-> get_str_bool_feature_value(Some(
             is_smallest_font_size(locals.relative_font_size_feature, layout_token))),
         is_larger_than_average_font_size |-> get_str_bool_feature_value(Some(
             is_larger_than_average_font_size(locals.relative_font_size_feature,
                                              layout_token)))]

\* the locals when the generator is suspended at the yield of the token:
\* the tracker was updated by get_alignment_status; previous_layout_token
\* is assigned when the generator is resumed (line 422), before any other
\* use of it
LocalsAfterToken(locals, token_features) ==
    [locals EXCEPT
        !.line_indentation_status_feature =
            get_is_indented_and_update(TrackerAtToken(locals, token_features),
                                       token_features.layout_token),
        !.previous_layout_token = Some(token_features.layout_token)]

\* ---------------------- per-token generator with context features: actions
CallFont1 == LayoutFont("F1", Some("family1"), Some(1), Some(FALSE), Some(FALSE), None, None)

CallFont2 == LayoutFont("F2", Some("family2"), Some(2), Some(FALSE), Some(FALSE), None, None)

CallTokens ==
    {LayoutToken(<<"a">>, CallFont1, <<" ">>,
                 Some(LayoutCoordinates(Frac(0, 1), Frac(0, 1), Frac(1, 1), Frac(1, 1)))),
     LayoutToken(<<"b">>, CallFont2, <<" ">>,
                 Some(LayoutCoordinates(Frac(3, 1), Frac(0, 1), Frac(1, 1), Frac(1, 1))))}

\* what separates a token from the token before it
CallBreaks == {"none", "line", "block", "page"}

\* the document of the tokens, cut where breaks[i] separates tokens[i]
\* from tokens[i + 1]
RECURSIVE CallDocumentOf(_, _)
CallDocumentOf(tokens, breaks) ==
    IF tokens = <<>> THEN LayoutDocument(<<>>)
    ELSE IF Len(tokens) = 1
    THEN LayoutDocument(<<LayoutPage(<<LayoutBlock(<<LayoutLine(tokens)>>)>>)>>)
    ELSE LET rest == CallDocumentOf(Tail(tokens), Tail(breaks))
             page == rest.pages[1]
             block == page.blocks[1]
             line == block.lines[1]
             first == Head(tokens)
         IN  IF breaks[1] = "page"
             THEN LayoutDocument(
                 <<LayoutPage(<<LayoutBlock(<<LayoutLine(<<first>>)>>)>>)>> \o rest.pages)
             ELSE IF breaks[1] = "block"
             THEN LayoutDocument(
                 <<LayoutPage(<<LayoutBlock(<<LayoutLine(<<first>>)>>)>> \o page.blocks)>>
                 \o Tail(rest.pages))
             ELSE IF breaks[1] = "line"
             THEN LayoutDocument(
                 <<LayoutPage(<<LayoutBlock(<<LayoutLine(<<first>>)>> \o block.lines)>>
                              \o Tail(page.blocks))>>
                 \o Tail(rest.pages))
             ELSE LayoutDocument(
                 <<LayoutPage(<<LayoutBlock(<<LayoutLine(<<first>> \o line.tokens)>>
                                            \o Tail(block.lines))>>
                              \o Tail(page.blocks))>>
                 \o Tail(rest.pages))

CallDocuments ==
    UNION {{CallDocumentOf(tokens, breaks) :
               tokens \in [1..n -> CallTokens], breaks \in [1..(n - 1) -> CallBreaks]} :
           n \in 1..MaxCallTokens}
    \cup {LayoutDocument(<<>>)}

\* the documents of the second call: a line of one token, and two lines
\* of which the second starts further left in another font
CallSecondDocuments ==
    {CallDocumentOf(<<CHOOSE t \in CallTokens : t.text = <<"a">>>>, <<>>),
     CallDocumentOf(<<CHOOSE t \in CallTokens : t.text = <<"b">>,
                      CHOOSE t \in CallTokens : t.text = <<"a">>>>, <<"line">>)}

\* iter_model_data_for_layout_document was called twice on one data
\* generator: two generators that have not run yet, their locals unbound
GenInstanceInit ==
    /\ gi_docs \in CallDocuments \X CallSecondDocuments
    /\ gi_pc = <<"created", "created">>
    /\ gi_next = <<1, 1>>
    /\ gi_locals = <<[bound |-> FALSE], [bound |-> FALSE]>>
    /\ gi_rows = <<<<>>, <<>>>>
    /\ LayoutIdle
    /\ PipelineIdle("gi")

\* the locals the generator of a call works with when it is resumed: the
\* first resume runs the lines before the loops
LocalsAtResume(call) ==
    IF gi_pc[call] = "created" THEN GeneratorProlog(gi_docs[call])
    ELSE gi_locals[locals_scope(call)]

\* the generator of a call is resumed and yields the row of its next token
NextContextTokenModelData(call) ==
    /\ gi_pc[call] \in {"created", "suspended"}
    /\ gi_next[call] <= Len(DocumentTokenFeatures(gi_docs[call]))
    /\ LET token_features == DocumentTokenFeatures(gi_docs[call])[gi_next[call]]
       IN  /\ gi_rows' = [gi_rows EXCEPT ![call] =
                   Append(@, ContextTokenModelData(LocalsAtResume(call), token_features))]
           /\ gi_locals' = [gi_locals EXCEPT ![locals_scope(call)] =
                   LocalsAfterToken(LocalsAtResume(call), token_features)]
    /\ gi_pc' = [gi_pc EXCEPT ![call] = "suspended"]
    /\ gi_next' = [gi_next EXCEPT ![call] = @ + 1]
    /\ UNCHANGED <<gi_docs, layout_vars>>
    /\ PipelineUnchanged("gi")

\* the generator of a call is resumed after its last token: the loops end
ContextTokenModelDataExhausted(call) ==
    /\ gi_pc[call] \in {"created", "suspended"}
    /\ gi_next[call] > Len(DocumentTokenFeatures(gi_docs[call]))
    /\ gi_pc' = [gi_pc EXCEPT ![call] = "exhausted"]
    /\ gi_locals' = [gi_locals EXCEPT ![locals_scope(call)] = LocalsAtResume(call)]
    /\ UNCHANGED <<gi_docs, gi_next, gi_rows, layout_vars>>
    /\ PipelineUnchanged("gi")

\* the two generators are resumed in any order
GenInstanceNext ==
    \E call \in 1..2 :
        \/ NextContextTokenModelData(call)
        \/ ContextTokenModelDataExhausted(call)

SpecGenInstance == GenInstanceInit /\ [][GenInstanceNext]_vars

\* ------------------------------------------------------------- claim C21
\* the rows of a generator that handles the document alone: from the
\* k-th token on, with the locals it has there
RECURSIVE RowsAlone(_, _, _)
RowsAlone(layout_document, locals, k) ==
    IF k > Len(DocumentTokenFeatures(layout_document)) THEN <<>>
    ELSE <<ContextTokenModelData(locals, DocumentTokenFeatures(layout_document)[k])>>
         \o RowsAlone(layout_document,
                      LocalsAfterToken(locals, DocumentTokenFeatures(layout_document)[k]),
                      k + 1)

\* C21: whatever the order in which the generators of two calls on one
\* data generator are resumed (one alone, one after the other, or step by
\* step in turns), the rows each has yielded are the first rows a
\* generator yields that handles its document alone, and all of them once
\* it is exhausted.
C21_RowsIndependentOfOtherCalls ==
    \A call \in 1..2 :
        LET alone == RowsAlone(gi_docs[call], GeneratorProlog(gi_docs[call]), 1)
        IN  /\ Len(gi_rows[call]) <= Len(alone)
            /\ gi_rows[call] = SubSeq(alone, 1, Len(gi_rows[call]))
            /\ gi_pc[call] = "exhausted" => gi_rows[call] = alone

\* both generators are suspended in the middle of their documents; the
\* first has yielded a row for an indented line and a row for a token
\* that has not the largest font size of its document
C21_Witness ==
    /\ gi_pc = <<"suspended", "suspended">>
    /\ Len(gi_rows[1]) = 2
    /\ Len(DocumentTokenFeatures(gi_docs[1])) = 3
    /\ Len(gi_rows[2]) = 1
    /\ Len(DocumentTokenFeatures(gi_docs[2])) = 2
    /\ gi_rows[1][2].alignment_status = "LINEINDENT"
    /\ gi_rows[1][1].is_largest_font_size = "0"

\* ------------------------------------------------------------- claim C25
\* the tokens of the document of a call, in document order
CallDocumentTokens(call) ==
    Concat([b \in 1..Len(iter_all_blocks(gi_docs[call])) |->
        LayoutBlockTokens(iter_all_blocks(gi_docs[call])[b])])

\* C25: in the rows of the per-token generator the first token of the
\* document is NEWFONT, and every later token is SAMEFONT exactly when its
\* font family is the font family of the token before it in document
\* order, whether that token is in the same line or the last token of the
\* line, block or page before.
C25_FontContinuity ==
    \A call \in 1..2 :
        \A k \in 1..Len(gi_rows[call]) :
            /\ gi_rows[call][k].layout_token = CallDocumentTokens(call)[k]
            /\ gi_rows[call][k].token_font_status \in {"SAMEFONT", "NEWFONT"}
            /\ k = 1 => gi_rows[call][k].token_font_status = "NEWFONT"
            /\ k > 1 =>
                  (gi_rows[call][k].token_font_status = "SAMEFONT"
                   <=> CallDocumentTokens(call)[k].font.font_family
                           = CallDocumentTokens(call)[k - 1].font.font_family)

\* the rows of a document of three tokens in three pages are out: the
\* second token has the font family of the first, the third another one
C25_Witness ==
    /\ Len(gi_docs[1].pages) = 3
    /\ Len(gi_rows[1]) = 3
    /\ gi_rows[1][1].token_font_status = "NEWFONT"
    /\ gi_rows[1][2].token_font_status = "SAMEFONT"
    /\ gi_rows[1][3].token_font_status = "NEWFONT"

(***************************************************************************)
(* SVG paths: sciencebeam_parser/utils/svg.py.                             *)
(* iter_bounding_box_for_svg_root feeds iter_parse_path into               *)
(* iter_absolute_path_instructions; both are generators, so each           *)
(* instruction passes through both before the next pair is read.           *)
(***************************************************************************)
MaxSvgPathLen == 3

SvgCoords == {1, 2}

SvgPathInstruction(command, x, y) == [command |-> command, x |-> x, y |-> y]

\* str.upper on a one-letter command
upper(command) ==
    CASE command = "m" -> "M"
      [] command = "l" -> "L"
      [] command = "h" -> "H"
      [] command = "v" -> "V"
      [] command = "z" -> "Z"
      [] OTHER -> command

\* str.islower on a one-letter command
islower(command) == command \in {"m", "l", "h", "v", "z"}

\* locals of iter_parse_path before its loop
ParsePathProlog == [previous_x |-> 0, previous_y |-> 0, first_point |-> None]

\* the x, y of one loop body of iter_parse_path (first_point is not None
\* where the close-path branch is taken)
parse_path_point(locals, command, values) ==
    LET command_upper == upper(command) IN
    IF command_upper = "Z"
    THEN locals.first_point[1]
    ELSE IF command_upper = "H"
    THEN <<values[1], IF command_upper = command THEN locals.previous_y ELSE 0>>
    ELSE IF command_upper = "V"
    THEN <<IF command_upper = command THEN locals.previous_x ELSE 0, values[1]>>
    ELSE <<values[Len(values) - 1], values[Len(values)]>>

\* the assertion of the close-path branch fails
parse_path_asserts(locals, command) ==
    upper(command) = "Z" /\ locals.first_point = None

ParsePathLocalsAfter(locals, point) ==
    [previous_x |-> point[1], previous_y |-> point[2],
     first_point |-> IF locals.first_point = None THEN Some(point)
                                                  ELSE locals.first_point]

\* locals of iter_absolute_path_instructions before its loop
AbsolutePathProlog == [previous_x |-> 0, previous_y |-> 0]

\* one loop body of iter_absolute_path_instructions
absolute_path_instruction(locals, path_instruction) ==
    IF ~islower(path_instruction.command)
    THEN path_instruction
    ELSE SvgPathInstruction(upper(path_instruction.command),
                            locals.previous_x + path_instruction.x,
                            locals.previous_y + path_instruction.y)

\* the (command, values) pairs of the path expressions considered: move and
\* line commands with two values, horizontal and vertical lines with one,
\* close-path with none
SvgPathItems ==
    {<<c, <<x, y>>>> : c \in {"M", "l"}, x \in SvgCoords, y \in SvgCoords}
    \cup {<<c, <<v>>>> : c \in {"H", "h", "V", "v"}, v \in SvgCoords}
    \cup {<<"Z", <<>>>>}

SvgPaths == UNION {[1..n -> SvgPathItems] : n \in 1..MaxSvgPathLen}

SvgInit ==
    /\ sv_path \in SvgPaths
    /\ sv_pos = 0
    /\ sv_parse = ParsePathProlog
    /\ sv_abs = AbsolutePathProlog
    /\ sv_parsed = <<>>
    /\ sv_out = <<>>
    /\ sv_status = "running"
    /\ LayoutIdle
    /\ PipelineIdle("sv")

\* one instruction is parsed, yielded, made absolute and yielded on
NextAbsolutePathInstruction ==
    /\ sv_status = "running"
    /\ sv_pos < Len(sv_path)
    /\ LET command == sv_path[sv_pos + 1][1]
           values  == sv_path[sv_pos + 1][2]
       IN /\ ~parse_path_asserts(sv_parse, command)
          /\ LET point == parse_path_point(sv_parse, command, values)
                 parsed == SvgPathInstruction(command, point[1], point[2])
                 absolute == absolute_path_instruction(sv_abs, parsed)
             IN /\ sv_parsed' = Append(sv_parsed, parsed)
                /\ sv_out' = Append(sv_out, absolute)
                /\ sv_parse' = ParsePathLocalsAfter(sv_parse, point)
                /\ sv_abs' = [previous_x |-> absolute.x, previous_y |-> absolute.y]
    /\ sv_pos' = sv_pos + 1
    /\ UNCHANGED <<sv_path, sv_status, layout_vars>>
    /\ PipelineUnchanged("sv")

\* a close-path command before any point: the assertion fails
ParsePathAssertionError ==
    /\ sv_status = "running"
    /\ sv_pos < Len(sv_path)
    /\ parse_path_asserts(sv_parse, sv_path[sv_pos + 1][1])
    /\ sv_status' = "AssertionError"
    /\ UNCHANGED <<sv_path, sv_pos, sv_parse, sv_abs, sv_parsed, sv_out, layout_vars>>
    /\ PipelineUnchanged("sv")

\* the path expression is exhausted
AbsolutePathExhausted ==
    /\ sv_status = "running"
    /\ sv_pos = Len(sv_path)
    /\ sv_status' = "done"
    /\ UNCHANGED <<sv_path, sv_pos, sv_parse, sv_abs, sv_parsed, sv_out, layout_vars>>
    /\ PipelineUnchanged("sv")

SvgNext ==
    \/ NextAbsolutePathInstruction
    \/ ParsePathAssertionError
    \/ AbsolutePathExhausted

SpecSvg == SvgInit /\ [][SvgNext]_vars

\* the absolute end position reached by the instructions before the k-th
SvgCurrentPointBefore(k) ==
    IF k = 1 THEN <<0, 0>> ELSE <<sv_out[k - 1].x, sv_out[k - 1].y>>

SvgAbsoluteLineKeepsCurrentPoint(k) ==
    /\ sv_path[k][1] = "H" => sv_out[k].y = SvgCurrentPointBefore(k)[2]
    /\ sv_path[k][1] = "V" => sv_out[k].x = SvgCurrentPointBefore(k)[1]

\* C22: an absolute horizontal-line command yields a point with the y of the
\* current point and an absolute vertical-line command one with the x of the
\* current point, the current point being the absolute end position reached
\* by all preceding instructions, absolute or relative
C22_AbsoluteLineKeepsCurrentPoint ==
    \A k \in 1..Len(sv_out) : SvgAbsoluteLineKeepsCurrentPoint(k)

\* C22 where every preceding instruction is an absolute one: H keeps the y
\* and V keeps the x of the current point
C22_AbsoluteLineAfterAbsoluteInstructions ==
    \A k \in 1..Len(sv_out) :
        (\A j \in 1..(k - 1) : ~islower(sv_path[j][1]))
            => SvgAbsoluteLineKeepsCurrentPoint(k)

C22_AfterAbsoluteWitness ==
    /\ sv_status = "done"
    /\ Len(sv_out) = 3
    /\ sv_path[1][1] = "M"
    /\ sv_path[2][1] = "H"
    /\ sv_path[3][1] = "V"
    /\ sv_out[2].x # sv_out[1].x
    /\ sv_out[3].y # sv_out[2].y

(***************************************************************************)
(* OCR: sciencebeam_parser/ocr_models/tesserocr_ocr_model.py.              *)
(* One TesserComputerVisionModel instance is shared by the request threads *)
(* of the service (app.run(threaded=True)).  Each thread runs              *)
(* predict_single; the steps are its statements.                           *)
(***************************************************************************)
OcrThreads == 1..MaxOcrThreads

OcrImages == {1, 2}

\* the text tesseract recognises in an image
OcrText(image) == <<"text of image", image>>

\* threading.Lock.acquire blocks while the lock is held
lock_always_available(lock) == TRUE

lock_available(lock) == lock = None

OcrCriticalSection == {"tesser_api", "create", "SetImage", "GetUTF8Text"}

\* TesserComputerVisionModel.__init__
OcrInit ==
    /\ oc_lock = None
    /\ oc_tesser_api = None
    /\ oc_apis = <<>>
    /\ oc_pc = [t \in OcrThreads |-> "idle"]
    /\ oc_image = [t \in OcrThreads |-> 0]
    /\ oc_local = [t \in OcrThreads |-> None]
    /\ oc_result = [t \in OcrThreads |-> [kind |-> "none"]]
    /\ oc_calls = [t \in OcrThreads |-> 0]
    /\ LayoutIdle
    /\ PipelineIdle("oc")

\* a request thread calls predict_single(image) and reaches the with statement
PredictSingleCall(t) ==
    /\ oc_pc[t] = "idle"
    /\ oc_calls[t] < MaxOcrCalls
    /\ \E image \in OcrImages : oc_image' = [oc_image EXCEPT ![t] = image]
    /\ oc_pc' = [oc_pc EXCEPT ![t] = "acquire"]
    /\ oc_calls' = [oc_calls EXCEPT ![t] = @ + 1]
    /\ oc_result' = [oc_result EXCEPT ![t] = [kind |-> "none"]]
    /\ oc_local' = [oc_local EXCEPT ![t] = None]
    /\ UNCHANGED <<oc_lock, oc_tesser_api, oc_apis, layout_vars>>
    /\ PipelineUnchanged("oc")

\* with self._lock: __enter__ acquires the lock
LockAcquire(t) ==
    /\ oc_pc[t] = "acquire"
    /\ lock_available(oc_lock)
    /\ oc_lock' = Some(t)
    /\ oc_pc' = [oc_pc EXCEPT ![t] = "tesser_api"]
    /\ UNCHANGED <<oc_tesser_api, oc_apis, oc_image, oc_local, oc_result, oc_calls, layout_vars>>
    /\ PipelineUnchanged("oc")

\* tesser_api = self.tesser_api: the property tests self._tesser_api is None
TesserApiGet(t) ==
    /\ oc_pc[t] = "tesser_api"
    /\ IF oc_tesser_api = None
       THEN /\ oc_pc' = [oc_pc EXCEPT ![t] = "create"]
            /\ UNCHANGED oc_local
       ELSE /\ oc_pc' = [oc_pc EXCEPT ![t] = "SetImage"]
            /\ oc_local' = [oc_local EXCEPT ![t] = oc_tesser_api]
    /\ UNCHANGED <<oc_lock, oc_tesser_api, oc_apis, oc_image, oc_result, oc_calls, layout_vars>>
    /\ PipelineUnchanged("oc")

\* self._tesser_api = PyTessBaseAPI(...).__enter__(); return self._tesser_api
TesserApiCreate(t) ==
    /\ oc_pc[t] = "create"
    /\ oc_apis' = Append(oc_apis, None)
    /\ oc_tesser_api' = Some(Len(oc_apis) + 1)
    /\ oc_local' = [oc_local EXCEPT ![t] = Some(Len(oc_apis) + 1)]
    /\ oc_pc' = [oc_pc EXCEPT ![t] = "SetImage"]
    /\ UNCHANGED <<oc_lock, oc_image, oc_result, oc_calls, layout_vars>>
    /\ PipelineUnchanged("oc")

\* tesser_api.SetImage(image)
SetImage(t) ==
    /\ oc_pc[t] = "SetImage"
    /\ oc_apis' = [oc_apis EXCEPT ![oc_local[t][1]] = Some(oc_image[t])]
    /\ oc_pc' = [oc_pc EXCEPT ![t] = "GetUTF8Text"]
    /\ UNCHANGED <<oc_lock, oc_tesser_api, oc_image, oc_local, oc_result, oc_calls, layout_vars>>
    /\ PipelineUnchanged("oc")

\* text = self.tesser_api.GetUTF8Text(); the result is returned and the with
\* statement releases the lock
GetUTF8TextAndReturn(t) ==
    /\ oc_pc[t] = "GetUTF8Text"
    /\ oc_result' = [oc_result EXCEPT ![t] =
            [kind |-> "text", text |-> OcrText(oc_apis[oc_tesser_api[1]][1])]]
    /\ oc_lock' = None
    /\ oc_pc' = [oc_pc EXCEPT ![t] = "idle"]
    /\ UNCHANGED <<oc_tesser_api, oc_apis, oc_image, oc_local, oc_calls, layout_vars>>
    /\ PipelineUnchanged("oc")

\* the constructor, SetImage or GetUTF8Text raises: the with statement
\* releases the lock and the exception leaves predict_single
PredictSingleRaises(t) ==
    /\ oc_pc[t] \in {"create", "SetImage", "GetUTF8Text"}
    /\ oc_result' = [oc_result EXCEPT ![t] = [kind |-> "raised"]]
    /\ oc_lock' = None
    /\ oc_pc' = [oc_pc EXCEPT ![t] = "idle"]
    /\ UNCHANGED <<oc_tesser_api, oc_apis, oc_image, oc_local, oc_calls, layout_vars>>
    /\ PipelineUnchanged("oc")

OcrNext ==
    \E t \in OcrThreads :
        \/ PredictSingleCall(t)
        \/ LockAcquire(t)
        \/ TesserApiGet(t)
        \/ TesserApiCreate(t)
        \/ SetImage(t)
        \/ GetUTF8TextAndReturn(t)
        \/ PredictSingleRaises(t)

SpecOcr == OcrInit /\ [][OcrNext]_vars

OcrThreadsInCriticalSection == {t \in OcrThreads : oc_pc[t] \in OcrCriticalSection}

\* C28: under any interleaving of predict_single calls on one instance the
\* PyTessBaseAPI object is created at most once, between a call's SetImage
\* and its GetUTF8Text the API holds that call's image and a call returns the
\* text of its own image, and the lock is held exactly while one call is
\* inside the with statement: it is free again after a call has ended, by
\* return or by exception
C28_OcrMutualExclusion ==
    /\ Len(oc_apis) <= 1
    /\ \A t \in OcrThreads :
        /\ oc_pc[t] = "GetUTF8Text" =>
                oc_apis[oc_tesser_api[1]] = Some(oc_image[t])
        /\ oc_result[t].kind = "text" =>
                oc_result[t].text = OcrText(oc_image[t])
        /\ oc_lock = Some(t) => oc_pc[t] \in OcrCriticalSection
    /\ Cardinality(OcrThreadsInCriticalSection) <= 1
    /\ oc_lock = None => OcrThreadsInCriticalSection = {}

\* one thread's call has ended with an exception and, after it, the other
\* thread has taken the lock for its second call and set its image on the one
\* API object
C28_Witness ==
    \E t \in OcrThreads, u \in OcrThreads :
        /\ t # u
        /\ oc_pc[t] = "idle"
        /\ oc_result[t].kind = "raised"
        /\ oc_pc[u] = "GetUTF8Text"
        /\ oc_calls[u] = 2
        /\ oc_lock = Some(u)
        /\ Len(oc_apis) = 1

(***************************************************************************)
(* Layout detection: sciencebeam_parser/cv_models/layout_parser_cv_model.py*)
(* One LayoutParserComputerVisionModel instance is shared by the request   *)
(* threads of the service.  predict_single reads the layout_model          *)
(* property, which takes no lock; the steps are the property's statements. *)
(***************************************************************************)
CvThreads == 1..MaxCvThreads

\* LayoutParserComputerVisionModel.__init__
CvInit ==
    /\ cv_layout_model = None
    /\ cv_loaded = 0
    /\ cv_pc = [t \in CvThreads |-> "idle"]
    /\ cv_new = [t \in CvThreads |-> None]
    /\ cv_used = [t \in CvThreads |-> None]
    /\ cv_calls = [t \in CvThreads |-> 0]
    /\ LayoutIdle
    /\ PipelineIdle("cv")

\* a request thread calls predict_single(image)
CvPredictSingleCall(t) ==
    /\ cv_pc[t] = "idle"
    /\ cv_calls[t] < MaxCvCalls
    /\ cv_calls' = [cv_calls EXCEPT ![t] = @ + 1]
    /\ cv_used' = [cv_used EXCEPT ![t] = None]
    /\ cv_new' = [cv_new EXCEPT ![t] = None]
    /\ cv_pc' = [cv_pc EXCEPT ![t] = "layout_model"]
    /\ UNCHANGED <<cv_layout_model, cv_loaded, layout_vars>>
    /\ PipelineUnchanged("cv")

\* if self._layout_model is None
LayoutModelTest(t) ==
    /\ cv_pc[t] = "layout_model"
    /\ cv_pc' = [cv_pc EXCEPT ![t] =
            IF cv_layout_model = None THEN "load_model" ELSE "return"]
    /\ UNCHANGED <<cv_layout_model, cv_loaded, cv_new, cv_used, cv_calls, layout_vars>>
    /\ PipelineUnchanged("cv")

\* load_model(self.model_path) builds a new AutoLayoutModel
load_model(t) ==
    /\ cv_pc[t] = "load_model"
    /\ cv_loaded' = cv_loaded + 1
    /\ cv_new' = [cv_new EXCEPT ![t] = Some(cv_loaded + 1)]
    /\ cv_pc' = [cv_pc EXCEPT ![t] = "assign"]
    /\ UNCHANGED <<cv_layout_model, cv_used, cv_calls, layout_vars>>
    /\ PipelineUnchanged("cv")

\* self._layout_model = <the loaded model>
LayoutModelAssign(t) ==
    /\ cv_pc[t] = "assign"
    /\ cv_layout_model' = cv_new[t]
    /\ cv_pc' = [cv_pc EXCEPT ![t] = "return"]
    /\ UNCHANGED <<cv_loaded, cv_new, cv_used, cv_calls, layout_vars>>
    /\ PipelineUnchanged("cv")

\* return self._layout_model, and predict_single runs detect on it
LayoutModelReturnAndDetect(t) ==
    /\ cv_pc[t] = "return"
    /\ cv_used' = [cv_used EXCEPT ![t] = cv_layout_model]
    /\ cv_pc' = [cv_pc EXCEPT ![t] = "idle"]
    /\ UNCHANGED <<cv_layout_model, cv_loaded, cv_new, cv_calls, layout_vars>>
    /\ PipelineUnchanged("cv")

CvNext ==
    \E t \in CvThreads :
        \/ CvPredictSingleCall(t)
        \/ LayoutModelTest(t)
        \/ load_model(t)
        \/ LayoutModelAssign(t)
        \/ LayoutModelReturnAndDetect(t)

SpecCv == CvInit /\ [][CvNext]_vars

\* C29: under any interleaving of predict_single calls from concurrent
\* request threads load_model is invoked at most once per instance and every
\* call uses the same loaded model object
C29_ModelLoadedAtMostOnce ==
    /\ cv_loaded <= 1
    /\ \A t \in CvThreads, u \in CvThreads :
        (cv_used[t] # None /\ cv_used[u] # None) => cv_used[t] = cv_used[u]

\* C29 for calls that start after the model has been stored: a thread loads
\* the model in its first call only, so load_model is invoked at most once
\* per thread
C29_ModelLoadedAtMostOncePerThread ==
    /\ cv_loaded <= MaxCvThreads
    /\ \A t \in CvThreads :
        cv_pc[t] \in {"load_model", "assign"} => cv_calls[t] = 1

====
